---- MODULE Spec2Model ----
(***************************************************************************)
(* A model of gotoken: the two pre-tokenizers (GPT2Splitter and            *)
(* cl100KBaseSplitter), the trie generator and its serialized lookup, the  *)
(* byte-pair table and the BPE tokenizer built on them.                    *)
(*                                                                         *)
(* Byte slices are sequences of integers 0..255.  Go offsets are 0-based:  *)
(* the byte at Go offset i of slice s is s[i + 1].                         *)
(***************************************************************************)
EXTENDS Integers, Sequences, FiniteSets, TLC

VARIABLES
    input,      \* the byte buffer handed to a splitter
    splitter,   \* which splitter runs: "none", "gpt2" or "cl100k"
    pos,        \* the driver loop's pos
    matches,    \* the driver loop's matches, each slice as <<lo, hi>> offsets
    status,     \* "building", "running", "done", "panic", "diverged"
    tokens,     \* the token list handed to BuildTrie, token number i at i + 1
    nodes,      \* the TrieNodes BuildTrie allocated; the root is nodes[1]
    trie,       \* the []uint32 that serialize returned
    key,        \* the last key looked up
    result,     \* what the last lookup returned
    pairs,      \* pairsToToken, entry k at k + 1
    tstatus,    \* "tokens", "built", "serialized", "looked", "inflated", "panic"
    text,       \* the string handed to Encode, as bytes
    npieces,    \* how many pieces text was put together from
    opts,       \* the options GetTokenizer was called with
    tokenizer,  \* the tokenizer GetTokenizer returned
    encoded,    \* the token ids Encode returned
    encErr,     \* the error Encode or Decode returned, "nil" for none
    decoded,    \* the string Decode returned, as bytes
    estatus,    \* "text", "ready", "failed", "encoded", "decoded", "allowed",
                \* "counted", "decodedIds"
    encLiteral, \* the literal the special-token error of Encode carries
    requestedName, \* the name GetTokenizer was called with, "" before the call
    allowedErr, \* the error Allowed returned, "nil" for none
    counted,    \* what Count returned
    idList,     \* the token ids handed to Decode by the caller
    factoryCalls, \* the calls of tokenizer factories, each with its arguments
    registry,   \* the map registered: the factory of each name, "nil" for
                \* a name that is no key of the map
    regMu,      \* the RWMutex: w is the goroutine that holds or waits for
                \* the write lock (0 for none), readers those that hold the
                \* read lock
    pc,         \* where each goroutine is in its call, "idle" between calls
    call,       \* the call of each goroutine: op, name and tokFactory
    tokenFactory, \* the tokenFactory GetTokenizer found, per goroutine
    encodings,  \* the slice encodings of ListTokenizers, per goroutine
    ranged,     \* the keys the range loop has visited, per goroutine
    regLog,     \* the registrations, in the order they wrote the map
    preToken,   \* the bytes handed to applyBPE
    elements,   \* the merge list of applyBPE, each element as its bytes
    rankCache,  \* the cached rank of each adjacent pair of elements
    merged,     \* the last merge: the list before it and the pair chosen
    bpeTokens,  \* the token ids applyBPE returned
    bpeStatus,  \* "input", "merging", "done"
    instance,   \* the tokenizer instance the concurrent callers share
    running,    \* the call of each caller: op, input and where it is
    work,       \* the working buffers of each call: items, next and out
    returned    \* what the last call of each caller returned

splitVars == <<input, splitter, pos, matches, status>>

trieVars == <<tokens, nodes, trie, key, result, pairs, tstatus>>

encVars == <<text, npieces, opts, tokenizer, encoded, encErr, decoded, estatus>>

apiVars == <<encLiteral, requestedName, allowedErr, counted, idList, factoryCalls>>

regVars == <<registry, regMu, pc, call, tokenFactory, encodings, ranged, regLog>>

bpeVars == <<preToken, elements, rankCache, merged, bpeTokens, bpeStatus>>

concVars == <<instance, running, work, returned>>

vars == <<splitVars, trieVars, encVars, apiVars, regVars, bpeVars, concVars>>

----------------------------------------------------------------------------
(* Bounds of the model.                                                    *)

\* The longest input buffer handed to a splitter.
MaxLen == 4

\* The bytes inputs are drawn from: ' space \n 1 L l s, and 0xC2 0xA0, which
\* together are U+00A0 (a two-byte whitespace code point) and apart are
\* invalid UTF-8.
Alphabet == {39, 32, 10, 49, 76, 108, 115, 194, 160}

\* The words inputs are drawn from besides single bytes: the contractions
\* in lower case, in upper case and in mixed case, the number U+00B2 and
\* the whitespace U+3000.
Words ==
    {<<39, 115>>, <<39, 116>>, <<39, 109>>, <<39, 100>>,
     <<39, 114, 101>>, <<39, 118, 101>>, <<39, 108, 108>>,
     <<39, 83>>, <<39, 84>>, <<39, 77>>, <<39, 68>>,
     <<39, 82, 69>>, <<39, 86, 69>>, <<39, 76, 76>>,
     <<39, 82, 101>>, <<39, 114, 69>>, <<39, 86, 101>>, <<39, 118, 69>>,
     <<39, 76, 108>>, <<39, 108, 76>>,
     <<194, 178>>, <<227, 128, 128>>}

----------------------------------------------------------------------------
(* Slices.                                                                 *)

\* input[from:] of Go.
SliceFrom(s, from) == SubSeq(s, from + 1, Len(s))

\* input[lo:hi] of Go.
Slice(s, lo, hi) == SubSeq(s, lo + 1, hi)

\* TRUE; names a value so that it is computed before what follows uses it.
Done(x) == x = x

\* make([]T, n) with every entry v.
MakeSlice(n, v) == SubSeq([j \in 1..n |-> v], 1, n)

----------------------------------------------------------------------------
(* unicode/utf8 and unicode, as the splitters use them.                    *)

replacementChar == 65533

\* utf8.RuneError.
RuneError == 65533

\* The range a sequence's second byte must lie in, by its first byte
\* (utf8's acceptRanges).
AcceptLo(p0) == IF p0 = 224 THEN 160 ELSE IF p0 = 240 THEN 144 ELSE 128

AcceptHi(p0) == IF p0 = 237 THEN 159 ELSE IF p0 = 244 THEN 143 ELSE 191

\* The length the first byte announces; 0 for a byte that starts nothing.
LeadSize(p0) ==
    IF p0 < 128 THEN 1
    ELSE IF p0 < 194 THEN 0
    ELSE IF p0 < 224 THEN 2
    ELSE IF p0 < 240 THEN 3
    ELSE IF p0 < 245 THEN 4
    ELSE 0

IsCont(b) == 128 <= b /\ b <= 191

\* utf8.DecodeRune(p): <<rune, size>>.  An empty p gives <<RuneError, 0>>, an
\* invalid or short encoding <<RuneError, 1>>.
DecodeRune(p) ==
    IF Len(p) < 1 THEN <<RuneError, 0>>
    ELSE LET p0 == p[1]
             sz == LeadSize(p0)
         IN  IF sz = 1 THEN <<p0, 1>>
             ELSE IF sz = 0 \/ Len(p) < sz THEN <<RuneError, 1>>
             ELSE IF p[2] < AcceptLo(p0) \/ AcceptHi(p0) < p[2] THEN <<RuneError, 1>>
             ELSE IF sz = 2 THEN <<(p0 % 32) * 64 + (p[2] % 64), 2>>
             ELSE IF ~IsCont(p[3]) THEN <<RuneError, 1>>
             ELSE IF sz = 3
                  THEN <<(p0 % 16) * 4096 + (p[2] % 64) * 64 + (p[3] % 64), 3>>
             ELSE IF ~IsCont(p[4]) THEN <<RuneError, 1>>
             ELSE <<(p0 % 8) * 262144 + (p[2] % 64) * 4096
                      + (p[3] % 64) * 64 + (p[4] % 64), 4>>

\* unicode.IsLetter on the code points U+0000..U+00FF and U+FFFD.
IsLetter(c) ==
    \/ 65 <= c /\ c <= 90
    \/ 97 <= c /\ c <= 122
    \/ c \in {170, 181, 186}
    \/ 192 <= c /\ c <= 255 /\ c # 215 /\ c # 247

\* unicode.IsNumber on the code points U+0000..U+00FF and U+FFFD.
IsNumber(c) ==
    \/ 48 <= c /\ c <= 57
    \/ c \in {178, 179, 185, 188, 189, 190}

\* unicode.IsSpace on the code points U+0000..U+00FF, U+3000 and U+FFFD.
IsSpace(c) ==
    \/ 9 <= c /\ c <= 13
    \/ c \in {32, 133, 160, 12288}

----------------------------------------------------------------------------
(* getMatchLength of GPT2Splitter.  The closure's variables c, pos and     *)
(* next are the fields of a record.                                        *)

\* A consume that takes a byte that is not UTF-8 for the letter L.
consumeMutant(in, st) ==
    [c |-> IF DecodeRune(SliceFrom(in, st.next))[1] = RuneError
           THEN 76 ELSE DecodeRune(SliceFrom(in, st.next))[1],
     pos |-> st.next,
     next |-> st.next + DecodeRune(SliceFrom(in, st.next))[2]]

\* consume(): advances c, pos and next.
consume(in, st) ==
    LET d == DecodeRune(SliceFrom(in, st.next))
    IN  [c |-> IF d[1] = RuneError THEN replacementChar ELSE d[1],
         pos |-> st.next,
         next |-> st.next + d[2]]

\* for pos < cc { consume(); if !unicode.IsLetter(c) { break } }
RECURSIVE LetterLoop(_, _)
LetterLoop(in, st) ==
    IF st.pos < Len(in)
    THEN LET s2 == consume(in, st)
         IN  IF ~IsLetter(s2.c) THEN s2 ELSE LetterLoop(in, s2)
    ELSE st

\* for pos < cc { consume(); if !unicode.IsNumber(c) { break } }
RECURSIVE NumberLoop(_, _)
NumberLoop(in, st) ==
    IF st.pos < Len(in)
    THEN LET s2 == consume(in, st)
         IN  IF ~IsNumber(s2.c) THEN s2 ELSE NumberLoop(in, s2)
    ELSE st

\* for pos < cc { consume(); if IsSpace(c) || IsLetter(c) || IsNumber(c) { break } }
RECURSIVE OtherLoop(_, _)
OtherLoop(in, st) ==
    IF st.pos < Len(in)
    THEN LET s2 == consume(in, st)
         IN  IF IsSpace(s2.c) \/ IsLetter(s2.c) \/ IsNumber(s2.c)
             THEN s2 ELSE OtherLoop(in, s2)
    ELSE st

\* for pos < cc && unicode.IsSpace(c) { consume() }
RECURSIVE SpaceLoop(_, _)
SpaceLoop(in, st) ==
    IF st.pos < Len(in) /\ IsSpace(st.c)
    THEN SpaceLoop(in, consume(in, st))
    ELSE st

\* The tail with the give-back taken after a single whitespace byte too.
WhitespaceTailMutant(in, st) ==
    LET s2 == SpaceLoop(in, st)
    IN  IF s2.pos >= 1 /\ s2.pos < Len(in) /\ ~IsSpace(s2.c)
        THEN s2.pos - 1
        ELSE s2.pos

\* The tail both splitters share: the whitespace run and its give-back.
WhitespaceTail(in, st) ==
    LET s2 == SpaceLoop(in, st)
    IN  IF s2.pos >= 2 /\ s2.pos < Len(in) /\ ~IsSpace(s2.c)
        THEN s2.pos - 1
        ELSE s2.pos

\* A contraction switch without the case 'l'.
GPT2ContractionMutant(in, c) ==
    IF c = 39 /\ Len(in) >= 2
    THEN IF in[2] \in {115, 116, 109, 100} THEN 2
         ELSE IF in[2] \in {114, 118} /\ Len(in) > 2 /\ in[3] = 101 THEN 3
         ELSE 0
    ELSE 0

\* The contraction switch of GPT2: the length matched, 0 when it falls through.
GPT2Contraction(in, c) ==
    LET cc == Len(in)
    IN  IF c = 39 /\ cc >= 2
        THEN IF in[2] \in {115, 116, 109, 100} THEN 2
             ELSE IF in[2] \in {114, 118} /\ cc > 2 /\ in[3] = 101 THEN 3
             ELSE IF in[2] = 108 /\ cc > 2 /\ in[3] = 108 THEN 3
             ELSE 0
        ELSE 0

\* getMatchLength (GPT2): the length in bytes of the match at the start of in.
GPT2MatchLength(in) ==
    LET cc == Len(in)
        s0 == consume(in, [c |-> 0, pos |-> 0, next |-> 0])
        k  == GPT2Contraction(in, s0.c)
        s1 == IF s0.c = 32 /\ cc >= 2 THEN consume(in, s0) ELSE s0
    IN  IF k > 0 THEN k
        ELSE IF IsLetter(s1.c) THEN LetterLoop(in, s1).pos
        ELSE IF IsNumber(s1.c) THEN NumberLoop(in, s1).pos
        ELSE IF ~IsSpace(s1.c) THEN OtherLoop(in, s1).pos
        ELSE WhitespaceTail(in, s1)

----------------------------------------------------------------------------
(* getMatchLength of cl100KBaseSplitter.                                   *)

\* The contraction switch of cl100k: the length matched, 0 when it falls
\* through.
CL100KContraction(in, c) ==
    LET cc == Len(in)
    IN  IF c = 39 /\ cc >= 2
        THEN IF in[2] \in {115, 116, 109, 100, 83, 84, 77, 68} THEN 2
             ELSE IF in[2] \in {114, 118, 82, 86} /\ cc >= 3 /\ in[3] \in {101, 69}
                  THEN 3
             ELSE IF in[2] \in {108, 76} /\ cc >= 3 /\ in[3] \in {108, 76} THEN 3
             ELSE 0
        ELSE 0

\* The loop with room for four numbers.
RECURSIVE NumberLoop3Mutant(_, _, _)
NumberLoop3Mutant(in, st, count) ==
    IF st.pos < Len(in) /\ count < 4
    THEN LET s2 == consume(in, st)
         IN  IF ~IsNumber(s2.c) THEN s2 ELSE NumberLoop3Mutant(in, s2, count + 1)
    ELSE st

\* for pos < cc && count < 3 { consume(); count++; if !IsNumber(c) { break } }
RECURSIVE NumberLoop3(_, _, _)
NumberLoop3(in, st, count) ==
    IF st.pos < Len(in) /\ count < 3
    THEN LET s2 == consume(in, st)
         IN  IF ~IsNumber(s2.c) THEN s2 ELSE NumberLoop3(in, s2, count + 1)
    ELSE st

\* for pos < cc && (c == '\r' || c == '\n') { consume() }
RECURSIVE NewlineLoop(_, _)
NewlineLoop(in, st) ==
    IF st.pos < Len(in) /\ (st.c = 13 \/ st.c = 10)
    THEN NewlineLoop(in, consume(in, st))
    ELSE st

\* getMatchLength (cl100k): the length in bytes of the match at the start of
\* in.
CL100KMatchLength(in) ==
    LET cc == Len(in)
        s0 == consume(in, [c |-> 0, pos |-> 0, next |-> 0])
        k  == CL100KContraction(in, s0.c)
        isLetter == IsLetter(s0.c)
        isNumber == IsNumber(s0.c)
        peek == IF s0.next < cc THEN DecodeRune(SliceFrom(in, s0.next))[1]
                ELSE replacementChar
        s1 == IF s0.c = 32 /\ cc >= 2 THEN consume(in, s0) ELSE s0
    IN  IF k > 0 THEN k
        ELSE IF isLetter \/ (cc >= 2 /\ ~isNumber /\ s0.c # 13 /\ s0.c # 10
                              /\ IsLetter(peek))
             THEN LetterLoop(in, s0).pos
        ELSE IF isNumber THEN NumberLoop3(in, s0, 0).pos
        ELSE IF ~IsSpace(s1.c) /\ ~IsLetter(s1.c) /\ ~IsNumber(s1.c)
             THEN NewlineLoop(in, OtherLoop(in, s1)).pos
        ELSE WhitespaceTail(in, s1)

\* getMatchLength of the splitter sp.
getMatchLength(sp, in) ==
    IF sp = "gpt2" THEN GPT2MatchLength(in) ELSE CL100KMatchLength(in)

----------------------------------------------------------------------------
(* Bit operations on non-negative integers.  x << n is x * 2^n, x >> n is  *)
(* x \div 2^n and x & (2^n - 1) is x % 2^n.                                *)

RECURSIVE BitOr(_, _)
BitOr(a, b) ==
    IF a = 0 THEN b
    ELSE IF b = 0 THEN a
    ELSE (IF a % 2 = 1 \/ b % 2 = 1 THEN 1 ELSE 0) + 2 * BitOr(a \div 2, b \div 2)

----------------------------------------------------------------------------
(* gen/trie.go: the trie in memory.  A *TrieNode is an index into the      *)
(* sequence of allocated nodes; the root is node 1.                        *)

\* newTrieNode(value); fixup is the zero value of its type.
newTrieNode(value) ==
    [value |-> value, children |-> <<>>, index |-> -1, fixup |-> 0]

\* sort.Search(len(children), func(i) { return children[i].value >= char }):
\* the binary search of package sort, from the bounds i and j.
RECURSIVE SortSearch(_, _, _, _, _)
SortSearch(ns, children, char, i, j) ==
    IF i < j
    THEN LET h == (i + j) \div 2
         IN  IF ~(ns[children[h + 1]].value >= char)
             THEN SortSearch(ns, children, char, h + 1, j)
             ELSE SortSearch(ns, children, char, i, h)
    ELSE i

\* append(children[:insertPos+1], children[insertPos:]...) and then
\* children[insertPos] = newNode.
InsertChild(children, insertPos, newNode) ==
    IF insertPos = Len(children) THEN Append(children, newNode)
    ELSE [SubSeq(children, 1, insertPos + 1)
            \o SubSeq(children, insertPos + 1, Len(children))
          EXCEPT ![insertPos + 1] = newNode]

\* The loop of insert from the k-th byte of token on, current being the node
\* reached.
RECURSIVE InsertWalk(_, _, _, _, _)
InsertWalk(ns, current, token, k, index) ==
    IF k > Len(token) THEN [ns EXCEPT ![current].index = index]
    ELSE LET char == token[k]
             ch == ns[current].children
             insertPos == SortSearch(ns, ch, char, 0, Len(ch))
         IN  IF insertPos < Len(ch) /\ ns[ch[insertPos + 1]].value = char
             THEN InsertWalk(ns, ch[insertPos + 1], token, k + 1, index)
             ELSE LET newNode == Len(ns) + 1
                      ns2 == Append(
                          [ns EXCEPT ![current].children =
                                         InsertChild(ch, insertPos, newNode)],
                          newTrieNode(char))
                  IN  InsertWalk(ns2, newNode, token, k + 1, index)

\* root.insert(token, index).
insert(ns, token, index) == InsertWalk(ns, 1, token, 1, index)

\* for index, token := range tokens { root.insert(token, index) }, over the
\* tokens numbered lo..hi (the range is halved to keep the evaluation
\* shallow; the inserts happen in index order).
RECURSIVE BuildLoop(_, _, _, _)
BuildLoop(ns, toks, lo, hi) ==
    IF lo > hi THEN ns
    ELSE IF lo = hi THEN insert(ns, toks[lo + 1], lo)
    ELSE LET mid == (lo + hi) \div 2
             first == BuildLoop(ns, toks, lo, mid)
         IN  IF Done(first) THEN BuildLoop(first, toks, mid + 1, hi) ELSE first

\* BuildTrie(tokens): token number index is tokens[index + 1].
BuildTrie(toks) == BuildLoop(<<newTrieNode(0)>>, toks, 0, Len(toks) - 1)

\* node.lookup(token) on the trie in memory, from the k-th byte on.
RECURSIVE NodeLookup(_, _, _, _)
NodeLookup(ns, current, token, k) ==
    IF k > Len(token) THEN ns[current].index
    ELSE LET ch == ns[current].children
             searchPos == SortSearch(ns, ch, token[k], 0, Len(ch))
         IN  IF searchPos < Len(ch) /\ ns[ch[searchPos + 1]].value = token[k]
             THEN NodeLookup(ns, ch[searchPos + 1], token, k + 1)
             ELSE -1

----------------------------------------------------------------------------
(* gen/trie.go: serialize.  walk visits a node and then its children in    *)
(* order; the state threaded through a walk is the nodes (for fixup), the  *)
(* output array (entry i at i + 1) and the write offset i.                 *)

Max(a, b) == IF a > b THEN a ELSE b

\* The first walk: outputSize and maxDepth.  The children lo..hi of a node
\* are walked in order (the range is halved to keep the evaluation shallow).
RECURSIVE MeasureNode(_, _, _, _)
RECURSIVE MeasureChildren(_, _, _, _, _, _)
MeasureNode(ns, node, depth, acc) ==
    LET n == Len(ns[node].children)
        a1 == [outputSize |-> acc.outputSize + (IF n > 0 THEN n + 1 ELSE 0),
               maxDepth |-> Max(acc.maxDepth, depth)]
    IN  MeasureChildren(ns, ns[node].children, 1, n, depth + 1, a1)

MeasureChildren(ns, ch, lo, hi, depth, acc) ==
    IF lo > hi THEN acc
    ELSE IF lo = hi THEN MeasureNode(ns, ch[lo], depth, acc)
    ELSE LET mid == (lo + hi) \div 2
             first == MeasureChildren(ns, ch, lo, mid, depth, acc)
         IN  IF Done(first) THEN MeasureChildren(ns, ch, mid + 1, hi, depth, first)
             ELSE first

\* The header word: ((index+1) & 0xffffff) << 8 | (len(children) & 0xff).
\* A header that stores the token number plus two, not the number plus one.
HeaderWordMutant(index, childCount) ==
    BitOr(((index + 2) % 16777216) * 256, childCount % 256)

HeaderWord(index, childCount) ==
    BitOr(((index + 1) % 16777216) * 256, childCount % 256)

\* The word of a leaf child: uint32(value | index << 9 | 0x100).  The
\* conversion keeps the low 23 bits of index.
LeafWord(value, index) == BitOr(BitOr(value, (index % 8388608) * 512), 256)

\* The word of the k-th child of an emitted node, written at output[i].
EmitChildWord(st, ch, k) ==
    LET child == st.ns[ch[k]]
    IN  IF Len(child.children) = 0
        THEN [st EXCEPT !.output[st.i + 1] = LeafWord(child.value, child.index),
                        !.i = st.i + 1]
        ELSE [st EXCEPT !.output[st.i + 1] = child.value,
                        !.ns[ch[k]].fixup = st.i,
                        !.i = st.i + 1]

\* for _, child := range node.children, over the children lo..hi.
RECURSIVE EmitChildWords(_, _, _, _)
EmitChildWords(st, ch, lo, hi) ==
    IF lo > hi THEN st
    ELSE IF lo = hi THEN EmitChildWord(st, ch, lo)
    ELSE LET mid == (lo + hi) \div 2
             first == EmitChildWords(st, ch, lo, mid)
         IN  IF Done(first) THEN EmitChildWords(first, ch, mid + 1, hi) ELSE first

\* What the second walk's function does at a node of the layer being output.
EmitNode(st, node) ==
    LET n == st.ns[node]
        st1 == IF n.fixup > 0
               THEN [st EXCEPT !.output[n.fixup + 1] =
                                   BitOr(@, (st.i % 8388608) * 512)]
               ELSE st
    IN  IF Len(n.children) > 0
        THEN EmitChildWords(
                 [st1 EXCEPT !.output[st1.i + 1] = HeaderWord(n.index, Len(n.children)),
                             !.i = st1.i + 1],
                 n.children, 1, Len(n.children))
        ELSE st1

\* One walk of the second loop: the nodes at depth = layer are emitted.
RECURSIVE LayerNode(_, _, _, _)
RECURSIVE LayerChildren(_, _, _, _, _, _)
LayerNode(st, node, depth, layer) ==
    LET st1 == IF depth = layer THEN EmitNode(st, node) ELSE st
        ch == st1.ns[node].children
    IN  LayerChildren(st1, ch, 1, Len(ch), depth + 1, layer)

LayerChildren(st, ch, lo, hi, depth, layer) ==
    IF lo > hi THEN st
    ELSE IF lo = hi THEN LayerNode(st, ch[lo], depth, layer)
    ELSE LET mid == (lo + hi) \div 2
             first == LayerChildren(st, ch, lo, mid, depth, layer)
         IN  IF Done(first) THEN LayerChildren(first, ch, mid + 1, hi, depth, layer)
             ELSE first

RECURSIVE LayerLoop(_, _, _)
LayerLoop(st, layer, maxDepth) ==
    IF layer > maxDepth THEN st
    ELSE LayerLoop(LayerNode(st, 1, 0, layer), layer + 1, maxDepth)

\* root.serialize(): the nodes with their fixups, the output and the final i.
serialize(ns) ==
    LET m == MeasureNode(ns, 1, 0, [outputSize |-> 0, maxDepth |-> 0])
    IN  LayerLoop([ns |-> ns, output |-> MakeSlice(m.outputSize, 0), i |-> 0],
                  0, m.maxDepth)

----------------------------------------------------------------------------
(* internal/serializedTrie.go: Lookup.                                     *)

\* What Lookup yields when an index expression runs past the array and the
\* runtime panics.
IndexOutOfRange == -2

\* trie[k], or the panic.
At(t, k) == IF 0 <= k /\ k < Len(t) THEN t[k + 1] ELSE IndexOutOfRange

\* The binary search among the childCount child words that start at pos.
RECURSIVE ChildSearch(_, _, _, _, _)
ChildSearch(t, p, char, left, right) ==
    IF left < right
    THEN LET mid == left + (right - left) \div 2
             w == At(t, p + mid)
         IN  IF w = IndexOutOfRange THEN IndexOutOfRange
             ELSE IF w % 256 < char THEN ChildSearch(t, p, char, mid + 1, right)
             ELSE ChildSearch(t, p, char, left, mid)
    ELSE left

\* The child word the loop body selects for char at the header at offset p:
\* -1 when the search fails.
ChildWord(t, p, char) ==
    LET hdr == At(t, p)
        childCount == hdr % 256
        left == ChildSearch(t, p + 1, char, 0, childCount)
    IN  IF hdr = IndexOutOfRange THEN IndexOutOfRange
        ELSE IF childCount = 0 THEN At(t, p + 1 + char)
        ELSE IF left = IndexOutOfRange THEN IndexOutOfRange
        ELSE IF left = childCount THEN -1
        ELSE IF At(t, p + 1 + left) = IndexOutOfRange THEN IndexOutOfRange
        ELSE IF At(t, p + 1 + left) % 256 # char THEN -1
        ELSE At(t, p + 1 + left)

\* The loop of Lookup from the i-th byte (0-based) on, the header at offset p.
RECURSIVE LookupLoop(_, _, _, _)
LookupLoop(t, in, i, p) ==
    IF i >= Len(in)
    THEN IF At(t, p) = IndexOutOfRange THEN IndexOutOfRange
         ELSE (At(t, p) \div 256) - 1
    ELSE LET body(trieValue) ==
                 IF trieValue < 0 THEN trieValue
                 ELSE IF (trieValue \div 256) % 2 = 1
                      THEN IF i = Len(in) - 1 THEN trieValue \div 512 ELSE -1
                 ELSE LookupLoop(t, in, i + 1, trieValue \div 512)
         \* trieValue is read from the trie once in an iteration.
         IN  CHOOSE r \in {body(w) : w \in {ChildWord(t, p, in[i + 1])}} : TRUE

\* serializedTrie(trie).Lookup(input), which TrieLookup returns.
Lookup(t, in) == IF Len(in) = 0 THEN -1 ELSE LookupLoop(t, in, 0, 0)

\* A TrieLookup that finds no key of more than three bytes.
TrieLookupMutant(t, in) == IF Len(in) > 3 THEN -1 ELSE Lookup(t, in)

TrieLookup(t, in) == Lookup(t, in)

----------------------------------------------------------------------------
(* The byte-pair table: createPairList of the generator and the init       *)
(* function of each encoding package that inflates it.  A word of the pair *)
(* list has more than 31 bits; it is kept as its bits from bit 20 up (hi)  *)
(* and its low 20 bits (lo).                                               *)

\* A word with the two bytes in each other's place.
PackPairMutant(left, right, n) ==
    [hi |-> BitOr(right * 256, BitOr(left, n \div 1048576)), lo |-> n % 1048576]

\* (left << 28) | (right << 20) | n.
PackPair(left, right, n) ==
    [hi |-> BitOr(left * 256, BitOr(right, n \div 1048576)), lo |-> n % 1048576]

PairLess(a, b) == a.hi < b.hi \/ (a.hi = b.hi /\ a.lo < b.lo)

\* sort.Ints(pairList): ascending order.
SortInts(xs) ==
    LET n == Len(xs)
        rank == [k \in 1..n |->
                    Cardinality({j \in 1..n : \/ PairLess(xs[j], xs[k])
                                              \/ (xs[j] = xs[k] /\ j < k)}) + 1]
    IN  IF n = 0 THEN <<>>
        ELSE SubSeq([r \in 1..n |-> xs[CHOOSE k \in 1..n : rank[k] = r]], 1, n)

\* The second loop of createPairList: the words of the two-byte tokens
\* numbered lo..hi, in index order.
RECURSIVE PairLoop(_, _, _)
PairLoop(tokenList, lo, hi) ==
    IF lo > hi THEN <<>>
    ELSE IF lo = hi
         THEN IF Len(tokenList[lo + 1]) = 2
              THEN <<PackPair(tokenList[lo + 1][1], tokenList[lo + 1][2], lo)>>
              ELSE <<>>
    ELSE LET mid == (lo + hi) \div 2
             first == PairLoop(tokenList, lo, mid)
         IN  IF Done(first) THEN first \o PairLoop(tokenList, mid + 1, hi) ELSE first

\* The first loop of createPairList reads tokenList[i][0] for i < 256: it
\* panics on a shorter list and on an empty token among the first 256.
createPairListPanics(tokenList) ==
    \/ Len(tokenList) < 256
    \/ \E i \in 1..256 : tokenList[i] = <<>>

\* createPairList(tokenList).
createPairList(tokenList) == SortInts(PairLoop(tokenList, 256, Len(tokenList) - 1))

\* pairsToToken[pair>>20] = int(pair) & 0xfffff
InflateOne(table, pair) == [table EXCEPT ![pair.hi + 1] = pair.lo]

\* for _, pair := range bytePairLookup, over the words numbered lo..hi.
RECURSIVE InflateLoop(_, _, _, _)
InflateLoop(table, bytePairLookup, lo, hi) ==
    IF lo > hi THEN table
    ELSE IF lo = hi THEN InflateOne(table, bytePairLookup[lo])
    ELSE LET mid == (lo + hi) \div 2
             first == InflateLoop(table, bytePairLookup, lo, mid)
         IN  IF Done(first) THEN InflateLoop(first, bytePairLookup, mid + 1, hi)
             ELSE first

\* init(): pairsToToken from bytePairLookup.
InflatePairs(bytePairLookup) ==
    InflateLoop(MakeSlice(65536, -1), bytePairLookup, 1, Len(bytePairLookup))

\* The entry of the pair with its bytes in each other's place.
PairRankMutant(table, b1, b2) == table[b2 * 256 + b1 + 1]

\* pairsToToken[(b1 << 8) | b2].
PairRank(table, b1, b2) == table[b1 * 256 + b2 + 1]

----------------------------------------------------------------------------
(* The driver loop of GPT2Splitter and of cl100KBaseSplitter, one          *)
(* iteration per step.                                                     *)

\* The slice input[pos:matchLength], its end not offset by pos.
MatchSliceMutant(p, matchLength) == <<p, matchLength>>

\* input[pos:pos+matchLength], by its two offsets into input.
MatchSlice(p, matchLength) == <<p, p + matchLength>>

SplitInit ==
    /\ input = <<>>
    /\ splitter = "none"
    /\ pos = 0
    /\ matches = <<>>
    /\ status = "building"

TrieInit ==
    /\ tokens = <<>>
    /\ nodes = <<>>
    /\ trie = <<>>
    /\ key = <<>>
    /\ result = -1
    /\ pairs = <<>>
    /\ tstatus = "tokens"

EncInit ==
    /\ text = <<>>
    /\ npieces = 0
    /\ opts = <<>>
    /\ tokenizer = [name |-> "none"]
    /\ encoded = <<>>
    /\ encErr = "nil"
    /\ decoded = <<>>
    /\ estatus = "text"
    /\ encLiteral = <<>>
    /\ requestedName = ""
    /\ allowedErr = "nil"
    /\ counted = 0
    /\ idList = <<>>
    /\ factoryCalls = <<>>

\* The goroutines that call the registry.
NumProcs == 2

Procs == 1..NumProcs

\* The names of the calls, as bytes: "cl100k_base", "p50k_base", "p50k_edit".
CL100KBaseName == <<99, 108, 49, 48, 48, 107, 95, 98, 97, 115, 101>>

P50KBaseName == <<112, 53, 48, 107, 95, 98, 97, 115, 101>>

P50KEditName == <<112, 53, 48, 107, 95, 101, 100, 105, 116>>

RegNames == {CL100KBaseName, P50KBaseName, P50KEditName}

\* The factories handed to RegisterTokenizer.
Factories == {"getTokenizerBase", "getTokenizerEdit"}

\* No call is in progress.
NoCall == [op |-> "none", name |-> <<>>, tokFactory |-> "nil"]

\* registered = make(map[string]func(bool, []string) (Tokenizer, error)),
\* regMu unlocked, no goroutine in a call.
RegInit ==
    /\ registry = [n \in RegNames |-> "nil"]
    /\ regMu = [w |-> 0, readers |-> {}]
    /\ pc = [p \in Procs |-> "idle"]
    /\ call = [p \in Procs |-> NoCall]
    /\ tokenFactory = [p \in Procs |-> "nil"]
    /\ encodings = [p \in Procs |-> <<>>]
    /\ ranged = [p \in Procs |-> {}]
    /\ regLog = <<>>

\* applyBPE has not been called.
BPEInit ==
    /\ preToken = <<>>
    /\ elements = <<>>
    /\ rankCache = <<>>
    /\ merged = [k |-> 0, before |-> <<>>]
    /\ bpeTokens = <<>>
    /\ bpeStatus = "input"

\* The goroutines that call the shared tokenizer.
NumCallers == 2

Callers == 1..NumCallers

\* No call is running.
Idle == [op |-> "none", input |-> <<>>, at |-> "idle"]

\* The working buffers of a call that has not started.
NoWork == [items |-> <<>>, next |-> 1, out |-> <<>>]

\* Nothing was returned.
NoResult ==
    [op |-> "none", input |-> <<>>, tokens |-> <<>>, text |-> <<>>, n |-> 0,
     err |-> "nil"]

\* No tokenizer is constructed and no caller runs.
ConcInit ==
    /\ instance = [name |-> "none"]
    /\ running = [p \in Callers |-> Idle]
    /\ work = [p \in Callers |-> NoWork]
    /\ returned = [p \in Callers |-> NoResult]

Init == SplitInit /\ TrieInit /\ EncInit /\ RegInit /\ BPEInit /\ ConcInit

\* The caller's buffer grows by one byte.
AddByte(b) ==
    /\ status = "building"
    /\ Len(input) < MaxLen
    /\ input' = Append(input, b)
    /\ UNCHANGED <<splitter, pos, matches, status, trieVars, encVars, apiVars, regVars, bpeVars, concVars>>

\* The caller's buffer grows by one word.
AddWord(w) ==
    /\ status = "building"
    /\ Len(input) + Len(w) <= MaxLen
    /\ input' = input \o w
    /\ UNCHANGED <<splitter, pos, matches, status, trieVars, encVars, apiVars, regVars, bpeVars, concVars>>

\* GPT2Splitter(input) is entered: pos := 0, matches := empty.
CallGPT2Splitter ==
    /\ status = "building"
    /\ splitter' = "gpt2"
    /\ pos' = 0
    /\ matches' = <<>>
    /\ status' = "running"
    /\ UNCHANGED <<input, trieVars, encVars, apiVars, regVars, bpeVars, concVars>>

\* cl100KBaseSplitter(input) is entered.
CallCL100KSplitter ==
    /\ status = "building"
    /\ splitter' = "cl100k"
    /\ pos' = 0
    /\ matches' = <<>>
    /\ status' = "running"
    /\ UNCHANGED <<input, trieVars, encVars, apiVars, regVars, bpeVars, concVars>>

\* One iteration of for pos < len(input): a match length that runs past the
\* buffer panics in the slice expression; one that is not positive leaves
\* the loop appending empty slices without end.
SplitStep ==
    /\ status = "running"
    /\ pos < Len(input)
    /\ LET matchLength == getMatchLength(splitter, SliceFrom(input, pos))
       IN  IF matchLength < 0 \/ pos + matchLength > Len(input)
           THEN /\ status' = "panic"
                /\ UNCHANGED <<pos, matches>>
           ELSE IF matchLength = 0
           THEN /\ status' = "diverged"
                /\ UNCHANGED <<pos, matches>>
           ELSE /\ matches' = Append(matches, MatchSlice(pos, matchLength))
                /\ pos' = pos + matchLength
                /\ UNCHANGED status
    /\ UNCHANGED <<input, splitter, trieVars, encVars, apiVars, regVars, bpeVars, concVars>>

\* The loop condition fails: return matches.
SplitReturn ==
    /\ status = "running"
    /\ pos >= Len(input)
    /\ status' = "done"
    /\ UNCHANGED <<input, splitter, pos, matches, trieVars, encVars, apiVars, regVars, bpeVars, concVars>>

Next ==
    \/ \E b \in Alphabet : AddByte(b)
    \/ \E w \in Words : AddWord(w)
    \/ CallGPT2Splitter
    \/ CallCL100KSplitter
    \/ SplitStep
    \/ SplitReturn

Spec == Init /\ [][Next]_vars

\* The bytes of the i-th returned substring.
MatchBytes(i) == Slice(input, matches[i][1], matches[i][2])

\* The returned substrings as byte sequences.
MatchList == [i \in 1..Len(matches) |-> MatchBytes(i)]

RECURSIVE Concat(_)
Concat(ss) == IF ss = <<>> THEN <<>> ELSE Head(ss) \o Concat(Tail(ss))

----------------------------------------------------------------------------
(* The generator and the lookup as a state machine: a token list is        *)
(* chosen, BuildTrie and serialize run on it, then keys are looked up or   *)
(* the pair table is built.                                                *)

\* The longest token list that is not a vocabulary.
MaxTokens == 3

\* How many tokens follow the blocks of 256 in a vocabulary.
MaxExtraTokens == 1

\* The tokens a list is drawn from, the empty token among them.
TokenPool ==
    {<<>>, <<97>>, <<98>>, <<99>>, <<97, 98>>, <<97, 99>>, <<97, 98, 97>>}

KeyBytes == {97, 98, 99}

\* The longest key looked up.
MaxKeyLen == 3

\* The keys looked up.
KeyPool == UNION {[1..n -> KeyBytes] : n \in 0..MaxKeyLen}

\* The byte of the single-byte token number i of a vocabulary: as in the
\* encodings, not the identity ('!' is token 0, 'a' is 64, '\n' is 198 and
\* ' ' is 220).
ByteOfToken(i) ==
    IF i < 94 THEN i + 33
    ELSE IF i < 106 THEN i + 67
    ELSE IF i < 188 THEN i + 68
    ELSE IF i < 221 THEN i - 188
    ELSE IF i < 255 THEN i - 94
    ELSE 173

\* The 256 single-byte tokens, numbered 0..255.
SingleBytes == SubSeq([i \in 1..256 |-> <<ByteOfToken(i - 1)>>], 1, 256)

\* The 256 two-byte tokens that start with the byte b.
PairBlock(b) == SubSeq([i \in 1..256 |-> <<b, i - 1>>], 1, 256)

Range(f) == {f[i] : i \in DOMAIN f}

\* A vocabulary starts with the 256 single bytes.
AddSingleBytes ==
    /\ tstatus = "tokens"
    /\ tokens = <<>>
    /\ tokens' = SingleBytes
    /\ UNCHANGED <<nodes, trie, key, result, pairs, tstatus, splitVars, encVars, apiVars, regVars, bpeVars, concVars>>

\* A vocabulary gets every two-byte token that starts with 'a'.
AddPairBlock ==
    /\ tstatus = "tokens"
    /\ Len(tokens) = 256
    /\ tokens' = tokens \o PairBlock(97)
    /\ UNCHANGED <<nodes, trie, key, result, pairs, tstatus, splitVars, encVars, apiVars, regVars, bpeVars, concVars>>

\* The list gets one more token.
AddToken(t) ==
    /\ tstatus = "tokens"
    /\ \/ Len(tokens) < MaxTokens
       \/ Len(tokens) >= 256 /\ Len(tokens) % 256 < MaxExtraTokens
    /\ tokens' = Append(tokens, t)
    /\ UNCHANGED <<nodes, trie, key, result, pairs, tstatus, splitVars, encVars, apiVars, regVars, bpeVars, concVars>>

\* root := BuildTrie(tokens).
CallBuildTrie ==
    /\ tstatus = "tokens"
    /\ nodes' = BuildTrie(tokens)
    /\ tstatus' = "built"
    /\ UNCHANGED <<tokens, trie, key, result, pairs, splitVars, encVars, apiVars, regVars, bpeVars, concVars>>

\* serialized := root.serialize(); the assert on the output size ends the
\* program when it fails.
CallSerialize ==
    /\ tstatus = "built"
    /\ LET st == serialize(nodes)
       IN  /\ nodes' = st.ns
           /\ trie' = st.output
           /\ tstatus' = IF Len(st.output) = st.i THEN "serialized" ELSE "panic"
    /\ UNCHANGED <<tokens, key, result, pairs, splitVars, encVars, apiVars, regVars, bpeVars, concVars>>

\* TrieLookup(serialized, k).
CallTrieLookup(k) ==
    /\ tstatus \in {"serialized", "looked"}
    /\ key' = k
    /\ result' = TrieLookup(trie, k)
    /\ tstatus' = "looked"
    /\ UNCHANGED <<tokens, nodes, trie, pairs, splitVars, encVars, apiVars, regVars, bpeVars, concVars>>

\* bytePairLookup := createPairList(tokens), then the init function.
CallInflatePairs ==
    /\ tstatus = "serialized"
    /\ IF createPairListPanics(tokens)
       THEN /\ tstatus' = "panic"
            /\ UNCHANGED pairs
       ELSE /\ pairs' = InflatePairs(createPairList(tokens))
            /\ tstatus' = "inflated"
    /\ UNCHANGED <<tokens, nodes, trie, key, result, splitVars, encVars, apiVars, regVars, bpeVars, concVars>>

TrieNext ==
    \/ AddSingleBytes
    \/ AddPairBlock
    \/ \E t \in TokenPool : AddToken(t)
    \/ CallBuildTrie
    \/ CallSerialize
    \/ \E k \in KeyPool : CallTrieLookup(k)
    \/ CallInflatePairs

SpecTrie == Init /\ [][TrieNext]_vars

----------------------------------------------------------------------------
(* The reference regular expressions, matched the way a backtracking       *)
(* engine matches them: alternatives in the written order, greedy          *)
(* quantifiers that give back one repetition at a time.  A pattern is a    *)
(* sequence of alternatives, an alternative a sequence of pieces, a piece  *)
(* a character class with its least and greatest repetition count (-1 for  *)
(* no upper limit) or a negative lookahead for a class.                    *)

\* utf8.Valid(s).
RECURSIVE ValidUTF8(_)
ValidUTF8(s) ==
    IF s = <<>> THEN TRUE
    ELSE LET d == DecodeRune(s)
         IN  IF d[1] = RuneError /\ d[2] = 1 THEN FALSE
             ELSE ValidUTF8(SliceFrom(s, d[2]))

\* The code points of a valid UTF-8 buffer, each with its encoded size.
RECURSIVE Runes(_)
Runes(s) ==
    IF s = <<>> THEN <<>>
    ELSE LET d == DecodeRune(s) IN <<d>> \o Runes(SliceFrom(s, d[2]))

InClass(cls, c) ==
    CASE cls[1] = "lit"     -> c \in cls[2]
      [] cls[1] = "L"       -> IsLetter(c)
      [] cls[1] = "N"       -> IsNumber(c)
      [] cls[1] = "s"       -> IsSpace(c)
      [] cls[1] = "S"       -> ~IsSpace(c)
      [] cls[1] = "notsLN"  -> ~IsSpace(c) /\ ~IsLetter(c) /\ ~IsNumber(c)
      [] cls[1] = "notrnLN" -> c \notin {13, 10} /\ ~IsLetter(c) /\ ~IsNumber(c)

Rep(cls, lo, hi) == [cls |-> cls, min |-> lo, max |-> hi, look |-> FALSE]

Lit(cs) == Rep(<<"lit", cs>>, 1, 1)

NotFollowedBy(cls) == [cls |-> cls, min |-> 0, max |-> 0, look |-> TRUE]

\* How many code points from index i on lie in cls, up to limit (-1: no limit).
RECURSIVE RunLength(_, _, _, _)
RunLength(cps, i, cls, limit) ==
    IF limit = 0 \/ i > Len(cps) \/ ~InClass(cls, cps[i]) THEN 0
    ELSE 1 + RunLength(cps, i + 1, cls, IF limit < 0 THEN limit ELSE limit - 1)

\* The index after the match of pieces at index i, or 0 when they do not match.
RECURSIVE MatchPieces(_, _, _)
RECURSIVE TryCount(_, _, _, _)
MatchPieces(cps, i, pieces) ==
    IF pieces = <<>> THEN i
    ELSE LET p == Head(pieces)
         IN  IF p.look
             THEN IF i <= Len(cps) /\ InClass(p.cls, cps[i]) THEN 0
                  ELSE MatchPieces(cps, i, Tail(pieces))
             ELSE TryCount(cps, i, pieces, RunLength(cps, i, p.cls, p.max))

\* The first piece taking k repetitions, then fewer while the rest fails.
TryCount(cps, i, pieces, k) ==
    IF k < Head(pieces).min THEN 0
    ELSE LET e == MatchPieces(cps, i + k, Tail(pieces))
         IN  IF e # 0 THEN e ELSE TryCount(cps, i, pieces, k - 1)

\* The index after the match of the first alternative that matches at i, or 0.
RECURSIVE MatchAlternatives(_, _, _)
MatchAlternatives(cps, i, alts) ==
    IF alts = <<>> THEN 0
    ELSE LET e == MatchPieces(cps, i, Head(alts))
         IN  IF e # 0 THEN e ELSE MatchAlternatives(cps, i, Tail(alts))

\* The successive leftmost matches from index i on, as <<first, last + 1>>
\* index pairs.  A position where nothing matches, or only the empty string,
\* is skipped.
RECURSIVE FindAll(_, _, _)
FindAll(cps, i, alts) ==
    IF i > Len(cps) THEN <<>>
    ELSE LET e == MatchAlternatives(cps, i, alts)
         IN  IF e <= i THEN FindAll(cps, i + 1, alts)
             ELSE <<<<i, e>>>> \o FindAll(cps, e, alts)

Apostrophe == Lit({39})

\* 's|'t|'re|'ve|'m|'ll|'d| ?\p{L}+| ?\p{N}+| ?[^\s\p{L}\p{N}]+|\s+(?!\S)|\s+
GPT2Regex ==
    << <<Apostrophe, Lit({115})>>,
       <<Apostrophe, Lit({116})>>,
       <<Apostrophe, Lit({114}), Lit({101})>>,
       <<Apostrophe, Lit({118}), Lit({101})>>,
       <<Apostrophe, Lit({109})>>,
       <<Apostrophe, Lit({108}), Lit({108})>>,
       <<Apostrophe, Lit({100})>>,
       <<Rep(<<"lit", {32}>>, 0, 1), Rep(<<"L">>, 1, -1)>>,
       <<Rep(<<"lit", {32}>>, 0, 1), Rep(<<"N">>, 1, -1)>>,
       <<Rep(<<"lit", {32}>>, 0, 1), Rep(<<"notsLN">>, 1, -1)>>,
       <<Rep(<<"s">>, 1, -1), NotFollowedBy(<<"S">>)>>,
       <<Rep(<<"s">>, 1, -1)>> >>

\* (?i:'s|'t|'re|'ve|'m|'ll|'d)|[^\r\n\p{L}\p{N}]?\p{L}+|\p{N}{1,3}|
\*  ?[^\s\p{L}\p{N}]+[\r\n]*|\s*[\r\n]+|\s+(?!\S)|\s+
CL100KRegex ==
    << <<Apostrophe, Lit({115, 83})>>,
       <<Apostrophe, Lit({116, 84})>>,
       <<Apostrophe, Lit({114, 82}), Lit({101, 69})>>,
       <<Apostrophe, Lit({118, 86}), Lit({101, 69})>>,
       <<Apostrophe, Lit({109, 77})>>,
       <<Apostrophe, Lit({108, 76}), Lit({108, 76})>>,
       <<Apostrophe, Lit({100, 68})>>,
       <<Rep(<<"notrnLN">>, 0, 1), Rep(<<"L">>, 1, -1)>>,
       <<Rep(<<"N">>, 1, 3)>>,
       <<Rep(<<"lit", {32}>>, 0, 1), Rep(<<"notsLN">>, 1, -1),
         Rep(<<"lit", {13, 10}>>, 0, -1)>>,
       <<Rep(<<"s">>, 0, -1), Rep(<<"lit", {13, 10}>>, 1, -1)>>,
       <<Rep(<<"s">>, 1, -1), NotFollowedBy(<<"S">>)>>,
       <<Rep(<<"s">>, 1, -1)>> >>

\* The byte offset of code point index i (1-based; Len + 1 is the end).
RECURSIVE ByteOffset(_, _)
ByteOffset(rs, i) == IF i <= 1 THEN 0 ELSE ByteOffset(rs, i - 1) + rs[i - 1][2]

\* The substrings the pattern cuts a valid UTF-8 buffer into.
RegexSplit(alts, s) ==
    LET rs  == Runes(s)
        cps == [i \in 1..Len(rs) |-> rs[i][1]]
        ms  == FindAll(cps, 1, alts)
    IN  [j \in 1..Len(ms) |->
            Slice(s, ByteOffset(rs, ms[j][1]), ByteOffset(rs, ms[j][2]))]

----------------------------------------------------------------------------
(* The encodings.  The vocabulary data of the encoding packages is the     *)
(* first tokens of the GPT-2 vocabulary: the 256 single bytes and the      *)
(* first merges, and after them " <", one of the merges of a space with a  *)
(* punctuation byte that the vocabularies hold further on; the trie and    *)
(* the pair table are generated from it.                                   *)

\* tokenList: token number i at i + 1.
tokenList ==
    SingleBytes \o << <<32, 116>>, <<32, 97>>, <<104, 101>>, <<105, 110>>,
                      <<114, 101>>, <<111, 110>>, <<32, 116, 104, 101>>,
                      <<32, 60>> >>

\* The token of the byte 0.
byteToTokenOfZero == CHOOSE i \in 0..255 : tokenList[i + 1] = <<0>>

\* A byteToToken that gives every byte the token of the byte 0.
byteToTokenMutant == SubSeq([c \in 1..256 |-> byteToTokenOfZero], 1, 256)

\* byteToToken[tokenList[i][0]] = i for the first 256 tokens.
byteToToken ==
    SubSeq([c \in 1..256 |-> CHOOSE i \in 0..255 : tokenList[i + 1][1] = c - 1],
           1, 256)

\* tokenTrie: the generator's output for tokenList.
tokenTrie == serialize(BuildTrie(tokenList)).output

\* pairsToToken: the table init() inflates.
pairsToToken == InflatePairs(createPairList(tokenList))

EndOfText == <<60, 124, 101, 110, 100, 111, 102, 116, 101, 120, 116, 124, 62>>
FIMPrefix == <<60, 124, 102, 105, 109, 95, 112, 114, 101, 102, 105, 120, 124, 62>>
FIMMiddle == <<60, 124, 102, 105, 109, 95, 109, 105, 100, 100, 108, 101, 124, 62>>
FIMSuffix == <<60, 124, 102, 105, 109, 95, 115, 117, 102, 102, 105, 120, 124, 62>>
IMStart == <<60, 124, 105, 109, 95, 115, 116, 97, 114, 116, 124, 62>>
IMEnd == <<60, 124, 105, 109, 95, 101, 110, 100, 124, 62>>
EndOfPrompt == <<60, 124, 101, 110, 100, 111, 102, 112, 114, 111, 109, 112, 116, 124, 62>>

\* A string that is no special token of any encoding.
NotSpecial == <<60, 124, 110, 111, 116, 95, 115, 112, 101, 99, 105, 97, 108, 124, 62>>

\* The BPEParams of p50k_edit: its splitter and its special tokens.
P50KEditParams ==
    [Name |-> "r50k_edit",
     Splitter |-> "gpt2",
     SpecialTokens |-> {<<EndOfText, 50256>>, <<FIMPrefix, 50281>>,
                        <<FIMMiddle, 50282>>, <<FIMSuffix, 50283>>}]

\* The BPEParams of cl100k_base.
CL100KBaseParams ==
    [Name |-> "cl100k_base",
     Splitter |-> "cl100k",
     SpecialTokens |-> {<<EndOfText, 100257>>, <<FIMPrefix, 100258>>,
                        <<FIMMiddle, 100259>>, <<FIMSuffix, 100260>>,
                        <<IMStart, 100264>>, <<IMEnd, 100265>>,
                        <<EndOfPrompt, 100276>>}]

\* One iteration of the splitter's loop, matchLength being what
\* getMatchLength returned.
RECURSIVE SplitLoop(_, _, _, _)
SplitAppend(sp, in, p, ms, matchLength) ==
    SplitLoop(sp, in, p + matchLength,
              Append(ms, Slice(in, MatchSlice(p, matchLength)[1],
                                   MatchSlice(p, matchLength)[2])))

\* The splitter as a function: the substrings of in from offset p on.
SplitLoop(sp, in, p, ms) ==
    IF p < Len(in)
    THEN SplitAppend(sp, in, p, ms, getMatchLength(sp, SliceFrom(in, p)))
    ELSE ms

RunSplitter(sp, in) == SplitLoop(sp, in, 0, <<>>)

----------------------------------------------------------------------------
(* The functional options and GetTokenizer of tokenizer.go.  An option is  *)
(* a record: [kind |-> "asText"] is WithSpecialTokensAsText() and          *)
(* [kind |-> "tokens", tokens |-> ts] is WithSpecialTokens(ts...).         *)

\* Options that treat special tokens as text from the start.
tokenizerOptionsMutant == [AllowSpecialAsText |-> TRUE, AllowedSpecialTokens |-> <<>>]

\* options := tokenizerOptions{}
tokenizerOptions == [AllowSpecialAsText |-> FALSE, AllowedSpecialTokens |-> <<>>]

\* An option that leaves the options as they are.
WithSpecialTokensAsTextMutant(options) == options

\* WithSpecialTokensAsText(): opts.AllowSpecialAsText = true
WithSpecialTokensAsText(options) == [options EXCEPT !.AllowSpecialAsText = TRUE]

\* A WithSpecialTokens that puts its tokens before those already listed.
WithSpecialTokensPrependMutant(ts, options) ==
    [options EXCEPT !.AllowedSpecialTokens = ts \o @]

\* A WithSpecialTokens whose loop stops after the first token.
WithSpecialTokensFirstMutant(ts, options) ==
    [options EXCEPT !.AllowedSpecialTokens = @ \o SubSeq(ts, 1, 1)]

\* A WithSpecialTokens that drops its arguments.
WithSpecialTokensMutant(ts, options) == options

\* WithSpecialTokens(ts...): appends each of ts to opts.AllowedSpecialTokens.
WithSpecialTokens(ts, options) ==
    [options EXCEPT !.AllowedSpecialTokens = @ \o ts]

\* A loop over the options that stops after the first one.
ApplyOptionsMutant(os, options) ==
    IF os = <<>> THEN options
    ELSE IF Head(os).kind = "asText"
    THEN WithSpecialTokensAsText(options)
    ELSE WithSpecialTokens(Head(os).tokens, options)

\* for _, opt := range opts { opt(&options) }
RECURSIVE ApplyOptions(_, _)
ApplyOptions(os, options) ==
    IF os = <<>> THEN options
    ELSE ApplyOptions(Tail(os),
                      IF Head(os).kind = "asText"
                      THEN WithSpecialTokensAsText(options)
                      ELSE WithSpecialTokens(Head(os).tokens, options))

\* The factories the encoding packages register, by name.
registered ==
    [n \in {"p50k_edit", "cl100k_base"} |->
        IF n = "p50k_edit" THEN P50KEditParams ELSE CL100KBaseParams]

----------------------------------------------------------------------------
(* The BPE tokenizer: NewBPETokenizer, applyBPE, Encode and Decode.        *)

Literals(params) == {e[1] : e \in params.SpecialTokens}

\* NewBPETokenizer(params, allowSpecialAsText, allowedSpecial): fails when a
\* string of the allow list is no special token of the encoding.
NewBPETokenizer(params, allowSpecialAsText, allowedSpecial) ==
    IF \E i \in 1..Len(allowedSpecial) : allowedSpecial[i] \notin Literals(params)
    THEN [name |-> "none", err |-> "invalid special token"]
    ELSE [name |-> params.Name,
          err |-> "nil",
          params |-> params,
          disallowSpecialTokens |-> ~allowSpecialAsText,
          allowedSpecialTokens |-> Range(allowedSpecial)]

\* A GetTokenizer that does not apply its options.
GetTokenizerDefaultsMutant(encodingName, os) ==
    IF encodingName \in DOMAIN registered
    THEN NewBPETokenizer(registered[encodingName],
                         tokenizerOptions.AllowSpecialAsText,
                         tokenizerOptions.AllowedSpecialTokens)
    ELSE [name |-> "none", err |-> "ErrUnknownEncoding"]

\* A GetTokenizer that hands the factory true for AllowSpecialAsText.
GetTokenizerMutant(encodingName, os) ==
    IF encodingName \in DOMAIN registered
    THEN NewBPETokenizer(registered[encodingName], TRUE,
                         ApplyOptions(os, tokenizerOptions).AllowedSpecialTokens)
    ELSE [name |-> "none", err |-> "ErrUnknownEncoding"]

\* GetTokenizer(encodingName, opts...).
GetTokenizer(encodingName, os) ==
    LET options == ApplyOptions(os, tokenizerOptions)
    IN  IF encodingName \in DOMAIN registered
        THEN NewBPETokenizer(registered[encodingName],
                             options.AllowSpecialAsText,
                             options.AllowedSpecialTokens)
        ELSE [name |-> "none", err |-> "ErrUnknownEncoding"]

\* The calls of tokenFactory that GetTokenizer(encodingName, opts...) makes,
\* each with the name it was registered under and its two arguments.
tokenFactoryCalls(encodingName, os) ==
    IF encodingName \in DOMAIN registered
    THEN <<[name |-> encodingName,
            allowSpecialAsText |->
                ApplyOptions(os, tokenizerOptions).AllowSpecialAsText,
            allowedSpecial |->
                ApplyOptions(os, tokenizerOptions).AllowedSpecialTokens]>>
    ELSE <<>>

\* The rank of the pair of adjacent elements k and k + 1: the token their
\* bytes make, -1 when they make none.
Rank(parts, k) == TrieLookup(tokenTrie, parts[k] \o parts[k + 1])

\* The ranks of all adjacent pairs.
Ranks(parts) == [k \in 1..(Len(parts) - 1) |-> Rank(parts, k)]

\* The pair to merge: the lowest rank, the leftmost on a tie; 0 for none.
BestPair(ranks) ==
    IF \A k \in DOMAIN ranks : ranks[k] < 0 THEN 0
    ELSE CHOOSE k \in DOMAIN ranks :
             /\ ranks[k] >= 0
             /\ \A j \in DOMAIN ranks :
                    ranks[j] >= 0 => \/ ranks[k] < ranks[j]
                                     \/ (ranks[k] = ranks[j] /\ k <= j)

\* The elements with the pair k, k + 1 merged into one.
MergePair(parts, k) ==
    SubSeq(parts, 1, k - 1) \o << parts[k] \o parts[k + 1] >>
        \o SubSeq(parts, k + 2, Len(parts))

\* Merges until no adjacent pair has a rank.
RECURSIVE MergeLoop(_)
MergeStep(parts, k) == IF k = 0 THEN parts ELSE MergeLoop(MergePair(parts, k))

MergeLoop(parts) == MergeStep(parts, BestPair(Ranks(parts)))

\* The token of an element.
TokenOf(span) ==
    IF Len(span) = 1 THEN byteToToken[span[1] + 1] ELSE TrieLookup(tokenTrie, span)

\* The tokens of the elements.
TokensOf(parts) == SubSeq([i \in 1..Len(parts) |-> TokenOf(parts[i])], 1, Len(parts))

\* The elements a substring starts as: one per byte.
ByteParts(B) == SubSeq([i \in 1..Len(B) |-> <<B[i]>>], 1, Len(B))

\* The tokens of a substring of two bytes, rank being the pair table's
\* entry for it.
PairOrBytes(B, rank) ==
    IF rank >= 0 THEN <<rank>> ELSE TokensOf(ByteParts(B))

\* applyBPE(B): the tokens of one substring of the splitter.
applyBPE(B) ==
    IF Len(B) <= 1 THEN TokensOf(ByteParts(B))
    ELSE IF Len(B) = 2 THEN PairOrBytes(B, PairRank(pairsToToken, B[1], B[2]))
    ELSE TokensOf(MergeLoop(ByteParts(B)))

RECURSIVE EncodeSubstrings(_, _)
EncodeSubstrings(ms, k) ==
    IF k > Len(ms) THEN <<>> ELSE applyBPE(ms[k]) \o EncodeSubstrings(ms, k + 1)

\* A text chunk through the splitter and the merge engine.
EncodeChunk(tok, chunk) ==
    EncodeSubstrings(RunSplitter(tok.params.Splitter, chunk), 1)

\* The literal lit starts at offset i of s.
OccursAt(lit, s, i) == i + Len(lit) <= Len(s) /\ Slice(s, i, i + Len(lit)) = lit

\* The literals found in s at or after offset from, each as
\* <<offset, <<literal, id>>>>.
Hits(params, s, from) ==
    {h \in (from..(Len(s) - 1)) \X params.SpecialTokens : OccursAt(h[2][1], s, h[1])}

\* The leftmost of the hits, the longest of those that start there; <<>>
\* when there is none.
FirstHit(hits) ==
    IF hits = {} THEN <<>>
    ELSE CHOOSE h \in hits :
             \A g \in hits : \/ h[1] < g[1]
                             \/ (h[1] = g[1] /\ Len(h[2][1]) >= Len(g[2][1]))

\* The special-token scan from offset from on.
FindSpecial(params, s, from) == FirstHit(Hits(params, s, from))

\* The scan of s from the chunk that starts at offset chunk, resuming at
\* offset from: the text chunks and the allowed special tokens in order, a
\* chunk as [text |-> bytes], a token as [id |-> id]; it ends with
\* [err |-> literal] at a literal that policy forbids.
RECURSIVE ScanLoop(_, _, _, _, _)
ScanHit(tok, s, chunk, from, items, h) ==
    IF h = <<>>
    THEN Append(items, [text |-> SliceFrom(s, chunk)])
    ELSE IF h[2][1] \in tok.allowedSpecialTokens
    THEN ScanLoop(tok, s, h[1] + Len(h[2][1]), h[1] + Len(h[2][1]),
                  items \o <<[text |-> Slice(s, chunk, h[1])], [id |-> h[2][2]]>>)
    ELSE IF tok.disallowSpecialTokens
    THEN <<[err |-> h[2][1]]>>
    ELSE ScanLoop(tok, s, chunk, h[1] + Len(h[2][1]), items)

ScanLoop(tok, s, chunk, from, items) ==
    ScanHit(tok, s, chunk, from, items, FindSpecial(tok.params, s, from))

\* The tokens of the items from item k on.
RECURSIVE EncodeItems(_, _, _)
EncodeItems(tok, items, k) ==
    IF k > Len(items) THEN <<>>
    ELSE (IF "id" \in DOMAIN items[k]
          THEN <<items[k].id>>
          ELSE EncodeChunk(tok, items[k].text)) \o EncodeItems(tok, items, k + 1)

\* Encode, items being what the scan returned.
EncodeScanned(tok, items) ==
    IF items # <<>> /\ "err" \in DOMAIN items[1]
    THEN [tokens |-> <<>>, err |-> "ErrSpecialToken", literal |-> items[1].err]
    ELSE [tokens |-> EncodeItems(tok, items, 1), err |-> "nil"]

\* Encode(input).
Encode(tok, s) == EncodeScanned(tok, ScanLoop(tok, s, 0, 0, <<>>))

\* A Count that returns the length of the input.
CountMutant(tok, s) == Len(s)

\* Count(input): the number of tokens Encode returns, 0 when it fails.
CountEncoded(r) == IF r.err # "nil" THEN 0 ELSE Len(r.tokens)

Count(tok, s) == CountEncoded(Encode(tok, s))

\* An Allowed that does not look at the allow list.
AllowedMutant(tok, s) ==
    IF tok.disallowSpecialTokens /\ FindSpecial(tok.params, s, 0) # <<>>
    THEN "ErrSpecialToken"
    ELSE "nil"

\* Allowed(input) from offset from on: the special-token error when special
\* tokens are disallowed and one of the literals found in the input is not
\* on the allow list.
RECURSIVE AllowedFrom(_, _, _)
AllowedHit(tok, s, h) ==
    IF h = <<>> THEN "nil"
    ELSE IF h[2][1] \notin tok.allowedSpecialTokens THEN "ErrSpecialToken"
    ELSE AllowedFrom(tok, s, h[1] + Len(h[2][1]))

AllowedFrom(tok, s, from) == AllowedHit(tok, s, FindSpecial(tok.params, s, from))

\* Allowed(input).
Allowed(tok, s) ==
    IF tok.disallowSpecialTokens THEN AllowedFrom(tok, s, 0) ELSE "nil"

\* A DecodeToken that knows only the special tokens of the allow list.
DecodeTokenMutant(tok, id) ==
    IF id >= 0 /\ id < Len(tokenList) THEN tokenList[id + 1]
    ELSE IF \E e \in tok.params.SpecialTokens :
                e[2] = id /\ e[1] \in tok.allowedSpecialTokens
    THEN (CHOOSE e \in tok.params.SpecialTokens : e[2] = id)[1]
    ELSE <<-1>>

\* The bytes of one token: its vocabulary bytes, the literal of a special
\* token, <<-1>> for an id that is neither.
DecodeToken(tok, id) ==
    IF id >= 0 /\ id < Len(tokenList) THEN tokenList[id + 1]
    ELSE IF \E e \in tok.params.SpecialTokens : e[2] = id
    THEN (CHOOSE e \in tok.params.SpecialTokens : e[2] = id)[1]
    ELSE <<-1>>

RECURSIVE DecodeLoop(_, _, _)
DecodeLoop(tok, ids, k) ==
    IF k > Len(ids) THEN <<>> ELSE DecodeToken(tok, ids[k]) \o DecodeLoop(tok, ids, k + 1)

\* Decode(ids).
Decode(tok, ids) ==
    IF \E k \in 1..Len(ids) : DecodeToken(tok, ids[k]) = <<-1>>
    THEN [text |-> <<>>, err |-> "ErrInvalidToken"]
    ELSE [text |-> DecodeLoop(tok, ids, 1), err |-> "nil"]

----------------------------------------------------------------------------
(* The tokenizer as a state machine: GetTokenizer is called, a string is   *)
(* put together, Encode is called on it and Decode on what Encode          *)
(* returned.                                                               *)

\* The most pieces a string is put together from.
MaxPieces == 3

\* The most options of one GetTokenizer call.
MaxOpts == 2

\* The pieces of the strings: letters and a space that merge, a byte of the
\* literals, a byte that is not UTF-8, and two special-token literals.
Pieces ==
    {<<97>>, <<32>>, <<101>>, <<104>>, <<116>>, <<60>>, <<255>>, EndOfText, FIMPrefix}

\* The options of the calls.
OptionPool ==
    {[kind |-> "asText"],
     [kind |-> "tokens", tokens |-> <<EndOfText>>],
     [kind |-> "tokens", tokens |-> <<FIMPrefix>>],
     [kind |-> "tokens", tokens |-> <<NotSpecial>>],
     [kind |-> "tokens", tokens |-> <<EndOfText, EndOfPrompt>>]}

OptionLists == UNION {[1..n -> OptionPool] : n \in 0..MaxOpts}

\* The names of the calls, one of them not registered.
EncodingNames == {"p50k_edit", "cl100k_base", "gpt2"}

\* tok, err := GetTokenizer(name, os...).
CallGetTokenizer(name, os) ==
    /\ estatus = "text"
    /\ tokenizer.name = "none"
    /\ opts' = os
    /\ requestedName' = name
    /\ tokenizer' = GetTokenizer(name, os)
    /\ factoryCalls' = factoryCalls \o tokenFactoryCalls(name, os)
    /\ estatus' = IF tokenizer'.err = "nil" THEN "ready" ELSE "failed"
    /\ UNCHANGED <<text, npieces, encoded, encErr, decoded, encLiteral, allowedErr, counted, idList>>
    /\ UNCHANGED <<splitVars, trieVars, regVars, bpeVars, concVars>>

\* The caller's string grows by one piece.
AddPiece(p) ==
    /\ estatus = "ready"
    /\ npieces < MaxPieces
    /\ text' = text \o p
    /\ npieces' = npieces + 1
    /\ UNCHANGED <<opts, tokenizer, encoded, encErr, decoded, estatus, apiVars>>
    /\ UNCHANGED <<splitVars, trieVars, regVars, bpeVars, concVars>>

\* ids, err := tok.Encode(text).
CallEncode ==
    /\ estatus = "ready"
    /\ LET r == Encode(tokenizer, text)
       IN  /\ encoded' = r.tokens
           /\ encErr' = r.err
           /\ encLiteral' = IF r.err = "nil" THEN <<>> ELSE r.literal
    /\ estatus' = "encoded"
    /\ UNCHANGED <<text, npieces, opts, tokenizer, decoded, requestedName, allowedErr, counted, idList, factoryCalls>>
    /\ UNCHANGED <<splitVars, trieVars, regVars, bpeVars, concVars>>

\* s, err := tok.Decode(ids), for the ids Encode returned.
CallDecode ==
    /\ estatus = "encoded"
    /\ encErr = "nil"
    /\ LET r == Decode(tokenizer, encoded)
       IN  /\ decoded' = r.text
           /\ encErr' = r.err
    /\ estatus' = "decoded"
    /\ UNCHANGED <<text, npieces, opts, tokenizer, encoded, apiVars>>
    /\ UNCHANGED <<splitVars, trieVars, regVars, bpeVars, concVars>>

\* err := tok.Allowed(text), after Encode was called on the same text.
CallAllowed ==
    /\ estatus = "encoded"
    /\ allowedErr' = Allowed(tokenizer, text)
    /\ estatus' = "allowed"
    /\ UNCHANGED <<text, npieces, opts, tokenizer, encoded, encErr, decoded>>
    /\ UNCHANGED <<encLiteral, requestedName, counted, idList, factoryCalls>>
    /\ UNCHANGED <<splitVars, trieVars, regVars, bpeVars, concVars>>

\* n := tok.Count(text), after Encode was called on the same text.
CallCount ==
    /\ estatus = "encoded"
    /\ counted' = Count(tokenizer, text)
    /\ estatus' = "counted"
    /\ UNCHANGED <<text, npieces, opts, tokenizer, encoded, encErr, decoded>>
    /\ UNCHANGED <<encLiteral, requestedName, allowedErr, idList, factoryCalls>>
    /\ UNCHANGED <<splitVars, trieVars, regVars, bpeVars, concVars>>

\* The most ids of a list the caller hands to Decode.
MaxIds == 3

\* The ids of the lists: a byte, two merged tokens, special tokens of one
\* encoding and of both, and the least id above every token of the
\* vocabulary.
IdPool == {71, 258, 262, 50256, 50281, 100257, 100276, Len(tokenList)}

IdLists == UNION {[1..n -> IdPool] : n \in 0..MaxIds}

\* s, err := tok.Decode(l), for a list of the caller's own.
CallDecodeIds(l) ==
    /\ estatus = "ready"
    /\ npieces = 0
    /\ idList' = l
    /\ LET r == Decode(tokenizer, l)
       IN  /\ decoded' = r.text
           /\ encErr' = r.err
    /\ estatus' = "decodedIds"
    /\ UNCHANGED <<text, npieces, opts, tokenizer, encoded>>
    /\ UNCHANGED <<encLiteral, requestedName, allowedErr, counted, factoryCalls>>
    /\ UNCHANGED <<splitVars, trieVars, regVars, bpeVars, concVars>>

EncNext ==
    \/ \E name \in EncodingNames, os \in OptionLists : CallGetTokenizer(name, os)
    \/ \E p \in Pieces : AddPiece(p)
    \/ CallEncode
    \/ CallDecode
    \/ CallAllowed
    \/ CallCount
    \/ \E l \in IdLists : CallDecodeIds(l)

SpecEnc == Init /\ [][EncNext]_vars

----------------------------------------------------------------------------
(* Properties of the splitters.                                            *)

\* C2: the substrings a splitter returns are contiguous, non-overlapping
\* and in input order: the first starts at offset 0, each starts where the
\* one before it ends, none is empty; when the splitter returns, their
\* concatenation is the input byte for byte, and the empty input yields no
\* substrings.
SplitterCoverage ==
    status \in {"running", "done"} =>
        /\ \A i \in 1..Len(matches) :
              /\ matches[i][1] = (IF i = 1 THEN 0 ELSE matches[i - 1][2])
              /\ matches[i][1] < matches[i][2]
              /\ matches[i][2] <= Len(input)
        /\ pos = (IF matches = <<>> THEN 0 ELSE matches[Len(matches)][2])
        /\ status = "done" =>
              /\ Concat(MatchList) = input
              /\ input = <<>> => matches = <<>>

\* A splitter has returned three substrings of a four-byte input.
SplitterCoverageWitness ==
    /\ status = "done"
    /\ Len(input) = 4
    /\ Len(matches) = 3
    /\ Concat(MatchList) = input

\* C3: on every non-empty input getMatchLength of both splitters returns n
\* with 1 <= n <= len(input); the driver loop never slices out of range,
\* never stalls, and returns after at most len(input) iterations.
SplitterProgress ==
    /\ input # <<>> =>
          \A sp \in {"gpt2", "cl100k"} :
              /\ 1 <= getMatchLength(sp, input)
              /\ getMatchLength(sp, input) <= Len(input)
    /\ status = "running" /\ pos < Len(input) =>
          /\ 1 <= getMatchLength(splitter, SliceFrom(input, pos))
          /\ pos + getMatchLength(splitter, SliceFrom(input, pos)) <= Len(input)
    /\ status \notin {"panic", "diverged"}
    /\ Len(matches) <= Len(input)

\* A splitter has returned after as many iterations as the input has bytes,
\* one of them over a whitespace byte that is followed by text.
SplitterProgressWitness ==
    /\ status = "done"
    /\ Len(input) = 4
    /\ Len(matches) = 4
    /\ input[2] = 10
    /\ input[3] # 10

\* C4: on every valid UTF-8 input cl100KBaseSplitter returns the successive
\* leftmost matches of the cl100k reference pattern.
CL100KMatchesRegex ==
    status = "done" /\ splitter = "cl100k" /\ ValidUTF8(input) =>
        MatchList = RegexSplit(CL100KRegex, input)

\* C5: on every valid UTF-8 input GPT2Splitter returns the successive
\* leftmost matches of the GPT-2 pattern.
GPT2MatchesRegex ==
    status = "done" /\ splitter = "gpt2" /\ ValidUTF8(input) =>
        MatchList = RegexSplit(GPT2Regex, input)

----------------------------------------------------------------------------
(* Properties of the trie and of the pair table.                           *)

\* The tokens of the list are non-empty and no two are equal.
DistinctNonEmpty(toks) ==
    /\ \A i \in 1..Len(toks) : toks[i] # <<>>
    /\ \A i, j \in 1..Len(toks) : i # j => toks[i] # toks[j]

\* C6: for a list of distinct non-empty tokens, looking up token number i
\* in the serialized trie gives i, whatever the fan-out of the nodes on the
\* way and whether the token ends at a leaf or at an interior node.
TrieFindsEveryToken ==
    DistinctNonEmpty(tokens) =>
        /\ tstatus = "serialized" =>
              \A i \in 1..Len(tokens) : TrieLookup(trie, tokens[i]) = i - 1
        /\ tstatus = "looked" =>
              \A i \in 1..Len(tokens) : tokens[i] = key => result = i - 1

\* The token 'a' was found at an interior node with 256 children, below a
\* root with 256 children.
TrieFindsEveryTokenWitness ==
    /\ tstatus = "looked"
    /\ DistinctNonEmpty(tokens)
    /\ Len(tokens) = 512
    /\ key = <<97>>
    /\ result = 64

\* C7: for every token list and every key that is not in the list,
\* TrieLookup returns -1.
TrieMissesEveryOtherKey ==
    tstatus = "looked" /\ key \notin Range(tokens) => result = -1

\* C8: for a vocabulary whose tokens 0..255 are the 256 single bytes, the
\* inflated pair table and the trie agree on every one of the 65,536 byte
\* pairs, on the pairs that are tokens and on those that are not.
PairTableAgreesWithTrie ==
    tstatus = "inflated" =>
        \A b1, b2 \in 0..255 :
            PairRank(pairs, b1, b2) = TrieLookup(trie, <<b1, b2>>)

\* The table of a vocabulary with a block of two-byte tokens holds a pair
\* that is a token and a pair that is not.
PairTableAgreesWithTrieWitness ==
    /\ tstatus = "inflated"
    /\ Len(tokens) >= 512
    /\ PairRank(pairs, 97, 98) = 354
    /\ PairRank(pairs, 98, 97) = -1

----------------------------------------------------------------------------
(* Properties of the tokenizer.                                            *)

\* WithSpecialTokensAsText() is among the options of the call.
BuiltAsText == \E i \in 1..Len(opts) : opts[i].kind = "asText"

\* The string holds a special-token literal of the encoding.
ContainsLiteral(params, s) ==
    \E e \in params.SpecialTokens : \E i \in 0..(Len(s) - 1) : OccursAt(e[1], s, i)

\* C1: a tokenizer built with the allow-special-as-text option encodes every
\* byte sequence without error, and decoding what it encoded gives back
\* exactly the bytes of the sequence, invalid UTF-8 and special-token
\* literals included.
EncodeDecodeRoundTrip ==
    BuiltAsText =>
        /\ estatus = "encoded" => encErr = "nil"
        /\ estatus = "decoded" => encErr = "nil" /\ decoded = text

\* A string of a byte that is not UTF-8, a special-token literal and a
\* letter came back from Decode.
EncodeDecodeRoundTripWitness ==
    /\ estatus = "decoded"
    /\ BuiltAsText
    /\ text = <<255>> \o EndOfText \o <<104>>
    /\ decoded = text

\* C9: a tokenizer built with no options fails Encode with ErrSpecialToken
\* whenever the input holds a special-token literal of the encoding,
\* wherever it occurs, and returns no tokens.
NoOptionsRejectsSpecial ==
    estatus = "encoded" /\ opts = <<>> /\ ContainsLiteral(tokenizer.params, text) =>
        /\ encErr = "ErrSpecialToken"
        /\ encoded = <<>>

\* A tokenizer built with no options was given a literal between two
\* letters and failed.
NoOptionsRejectsSpecialWitness ==
    /\ estatus = "encoded"
    /\ opts = <<>>
    /\ text = <<97>> \o FIMPrefix \o <<97>>
    /\ encErr = "ErrSpecialToken"

\* C10: a tokenizer built with allow-special-as-text and an empty allow list
\* never fails Encode: the whole input goes through the splitter and the
\* merge engine as one chunk and every id returned is an ordinary token id,
\* none the id of a special token.
AsTextNeverFails ==
    /\ estatus = "encoded"
    /\ opts # <<>>
    /\ \A i \in 1..Len(opts) : opts[i].kind = "asText"
    =>
    /\ encErr = "nil"
    /\ encoded = EncodeChunk(tokenizer, text)
    /\ \A k \in 1..Len(encoded) :
          /\ encoded[k] < Len(tokenList)
          /\ \A e \in tokenizer.params.SpecialTokens : encoded[k] # e[2]

\* A tokenizer built with allow-special-as-text alone encoded a string with
\* a literal in it into the ids of its bytes.
AsTextNeverFailsWitness ==
    /\ estatus = "encoded"
    /\ opts = <<[kind |-> "asText"]>>
    /\ text = <<116>> \o EndOfText \o <<32>>
    /\ encErr = "nil"
    /\ Len(encoded) = 15

\* The strings the WithSpecialTokens options of the call list.
AllowListOf(os) ==
    UNION {Range(os[i].tokens) : i \in {j \in 1..Len(os) : os[j].kind = "tokens"}}

\* The first offset at or after i where a literal of lits starts in s;
\* Len(s) when there is none.
RECURSIVE FirstListed(_, _, _)
FirstListed(lits, s, i) ==
    IF i >= Len(s) THEN Len(s)
    ELSE IF \E l \in lits : OccursAt(l, s, i) THEN i
    ELSE FirstListed(lits, s, i + 1)

\* The literal of lits that starts at offset i of s.
LiteralAt(lits, s, i) == CHOOSE l \in lits : OccursAt(l, s, i)

\* The id of a literal in the special-token table.
IdOf(params, l) == (CHOOSE e \in params.SpecialTokens : e[1] = l)[2]

\* The tokens of s from offset from on when s is cut at every occurrence of
\* a literal of lits: each chunk encoded by itself, each literal as its id.
RECURSIVE ChunkedTokens(_, _, _, _)
ChunkedAt(tok, lits, s, from, i) ==
    IF i >= Len(s) THEN EncodeChunk(tok, SliceFrom(s, from))
    ELSE EncodeChunk(tok, Slice(s, from, i))
             \o <<IdOf(tok.params, LiteralAt(lits, s, i))>>
             \o ChunkedTokens(tok, lits, s, i + Len(LiteralAt(lits, s, i)))

ChunkedTokens(tok, lits, s, from) ==
    ChunkedAt(tok, lits, s, from, FirstListed(lits, s, from))

\* A literal of the encoding that the call did not list occurs in s.
ContainsUnlisted(params, os, s) ==
    \E e \in params.SpecialTokens :
        /\ e[1] \notin AllowListOf(os)
        /\ \E i \in 0..(Len(s) - 1) : OccursAt(e[1], s, i)

\* C11: when a literal on the allow list occurs in the input, each
\* occurrence gives exactly one token, its special id, at its place, and the
\* text before and after it is split and merged as chunks of their own: no
\* token covers bytes from both sides of the literal.
AllowedLiteralsGetSpecialIds ==
    /\ estatus = "encoded"
    /\ FirstListed(AllowListOf(opts), text, 0) < Len(text)
    /\ BuiltAsText \/ ~ContainsUnlisted(tokenizer.params, opts, text)
    =>
    /\ encErr = "nil"
    /\ encoded = ChunkedTokens(tokenizer, AllowListOf(opts), text, 0)

\* An allowed literal between 'h' and 'e' gave its id between the ids of
\* the two letters, which did not merge into "he".
AllowedLiteralsGetSpecialIdsWitness ==
    /\ estatus = "encoded"
    /\ EndOfText \in AllowListOf(opts)
    /\ text = <<104>> \o EndOfText \o <<101>>
    /\ encoded = <<71, 50256, 68>>

\* C12: with a non-empty allow list, a special-token literal of the encoding
\* that is not on the list makes Encode fail with the special-token error
\* when allow-special-as-text is off; when it is on, the literal is encoded
\* as ordinary text and the listed literals still get their special ids.
UnlistedLiteralPolicy ==
    /\ estatus = "encoded"
    /\ AllowListOf(opts) # {}
    /\ ContainsUnlisted(tokenizer.params, opts, text)
    =>
    IF BuiltAsText
    THEN /\ encErr = "nil"
         /\ encoded = ChunkedTokens(tokenizer, AllowListOf(opts), text, 0)
    ELSE /\ encErr = "ErrSpecialToken"
         /\ encoded = <<>>

\* With as-text on and only <|endoftext|> listed, <|fim_prefix|> became
\* ordinary tokens and the <|endoftext|> after it its special id.
UnlistedLiteralPolicyWitness ==
    /\ estatus = "encoded"
    /\ BuiltAsText
    /\ AllowListOf(opts) = {EndOfText}
    /\ text = FIMPrefix \o EndOfText
    /\ encErr = "nil"
    /\ Len(encoded) > 2
    /\ encoded[Len(encoded)] \in {50256, 100257}
    /\ \A k \in 1..(Len(encoded) - 1) : encoded[k] < Len(tokenList)

\* The literals of the encoding that the call did not list.
Unlisted(params, os) == Literals(params) \ AllowListOf(os)

\* C13 as stated: when disallowSpecialTokens is true and any special-token
\* literal appears in the input, Encode fails with the special-token error,
\* which carries a literal found in the input.
AnyLiteralFails ==
    /\ estatus = "encoded"
    /\ tokenizer.disallowSpecialTokens
    /\ ContainsLiteral(tokenizer.params, text)
    =>
    /\ encErr = "ErrSpecialToken"
    /\ encoded = <<>>
    /\ encLiteral \in Literals(tokenizer.params)
    /\ \E i \in 0..(Len(text) - 1) : OccursAt(encLiteral, text, i)

\* C13: when allow-special-as-text is not set (disallowSpecialTokens is
\* true) and a special-token literal that is not on the allow list appears
\* in the input, the whole Encode call fails with the special-token error,
\* which carries the leftmost such literal of the input.
UnlistedLiteralFails ==
    /\ estatus = "encoded"
    /\ ~BuiltAsText
    /\ ContainsUnlisted(tokenizer.params, opts, text)
    =>
    /\ tokenizer.disallowSpecialTokens
    /\ encErr = "ErrSpecialToken"
    /\ encoded = <<>>
    /\ encLiteral \in Unlisted(tokenizer.params, opts)
    /\ OccursAt(encLiteral, text,
                FirstListed(Unlisted(tokenizer.params, opts), text, 0))

\* After a listed <|endoftext|>, the unlisted <|fim_prefix|> failed the call
\* and the error names it.
UnlistedLiteralFailsWitness ==
    /\ estatus = "encoded"
    /\ ~BuiltAsText
    /\ AllowListOf(opts) = {EndOfText}
    /\ text = <<104>> \o EndOfText \o FIMPrefix
    /\ encErr = "ErrSpecialToken"
    /\ encLiteral = FIMPrefix

\* C14: whatever the allow-special-as-text setting, construction fails with
\* the invalid-special-token error and yields no tokenizer when the allow
\* list holds a string that is not in the special-token table of the
\* encoding, and succeeds when every listed string is in the table.
AllowListValidated ==
    /\ estatus \in {"ready", "failed"}
    /\ requestedName \in DOMAIN registered
    =>
    IF AllowListOf(opts) \subseteq Literals(registered[requestedName])
    THEN /\ estatus = "ready"
         /\ tokenizer.err = "nil"
         /\ tokenizer.name = registered[requestedName].Name
         /\ tokenizer.allowedSpecialTokens = AllowListOf(opts)
    ELSE /\ estatus = "failed"
         /\ tokenizer.err = "invalid special token"
         /\ tokenizer.name = "none"

\* With allow-special-as-text on, <|endofprompt|>, a special token of
\* cl100k_base only, made the construction of p50k_edit fail.
AllowListValidatedWitness ==
    /\ estatus = "failed"
    /\ requestedName = "p50k_edit"
    /\ BuiltAsText
    /\ AllowListOf(opts) = {EndOfText, EndOfPrompt}
    /\ AllowListOf(opts) \subseteq Literals(registered["cl100k_base"])
    /\ tokenizer.err = "invalid special token"

\* C15: Allowed(s) returns the special-token error exactly when Encode(s)
\* fails, under each of the four combinations of options: with no allow
\* list that is when s holds a literal and allow-special-as-text is off;
\* with an allow list, when s holds an unlisted literal and
\* allow-special-as-text is off; with allow-special-as-text, never.
AllowedAgreesWithEncode ==
    estatus = "allowed" =>
        /\ allowedErr \in {"nil", "ErrSpecialToken"}
        /\ (allowedErr = "ErrSpecialToken") <=> (encErr # "nil")
        /\ (allowedErr = "ErrSpecialToken") <=>
               (~BuiltAsText /\ ContainsUnlisted(tokenizer.params, opts, text))

\* With <|endoftext|> listed and allow-special-as-text off, a text with
\* <|endoftext|> and then <|fim_prefix|> failed both calls.
AllowedAgreesWithEncodeWitness ==
    /\ estatus = "allowed"
    /\ ~BuiltAsText
    /\ AllowListOf(opts) = {EndOfText}
    /\ text = EndOfText \o <<32>> \o FIMPrefix
    /\ allowedErr = "ErrSpecialToken"
    /\ encErr = "ErrSpecialToken"

InVocabulary(id) == id \in 0..(Len(tokenList) - 1)

\* The id is a special-token id of the encoding.
IsSpecialId(params, id) == \E e \in params.SpecialTokens : e[2] = id

\* The bytes the ids l[k..] stand for, each of them a vocabulary or
\* special-token id.
RECURSIVE BytesOfIds(_, _, _)
BytesOfIds(params, l, k) ==
    IF k > Len(l) THEN <<>>
    ELSE (IF InVocabulary(l[k]) THEN tokenList[l[k] + 1]
          ELSE (CHOOSE e \in params.SpecialTokens : e[2] = l[k])[1])
         \o BytesOfIds(params, l, k + 1)

RunAt(params, run, i) ==
    \E k \in 0..(Len(encoded) - Len(run)) :
        /\ SubSeq(encoded, k + 1, k + Len(run)) = run
        /\ Len(BytesOfIds(params, SubSeq(encoded, 1, k), 1)) = i

\* The splitter cuts s at offset off: a substring ends there.
RECURSIVE CutAt(_, _, _)
CutAt(ms, j, off) ==
    IF off = 0 THEN TRUE
    ELSE IF j > Len(ms) \/ off < 0 THEN FALSE
    ELSE CutAt(ms, j + 1, off - Len(ms[j]))

\* C18 as stated: with allow-special-as-text, a special-token literal in any
\* surrounding text encodes to the ids it encodes to as the whole input:
\* Encode(prefix + literal + suffix) holds Encode(literal) as the contiguous
\* run of ids that covers the bytes of the literal.
LiteralIdsInAnyText ==
    estatus = "encoded" /\ BuiltAsText =>
        \A l \in Unlisted(tokenizer.params, opts) :
            \A i \in 0..(Len(text) - 1) :
                OccursAt(l, text, i) =>
                    /\ encErr = "nil"
                    /\ RunAt(tokenizer.params, Encode(tokenizer, l).tokens, i)

\* C18: with allow-special-as-text, a special-token literal that is not on
\* the allow list is split and merged with the text around it, and
\* Encode(prefix + literal + suffix) holds Encode(literal) as the contiguous
\* run of ids that covers the bytes of the literal whenever the splitter
\* cuts prefix + literal + suffix at both ends of the literal.
LiteralIdsInCutText ==
    estatus = "encoded" /\ BuiltAsText =>
        \A l \in Unlisted(tokenizer.params, opts) :
            \A i \in 0..(Len(text) - 1) :
                /\ OccursAt(l, text, i)
                /\ CutAt(RunSplitter(tokenizer.params.Splitter, text), 1, i)
                /\ CutAt(RunSplitter(tokenizer.params.Splitter, text), 1,
                         i + Len(l))
                =>
                /\ encErr = "nil"
                /\ RunAt(tokenizer.params, Encode(tokenizer, l).tokens, i)

\* Between the letters 't' and 'e' the ids of <|endoftext|> are those of
\* <|endoftext|> alone, after one id and before one id.
LiteralIdsInCutTextWitness ==
    /\ estatus = "encoded"
    /\ opts = <<[kind |-> "asText"]>>
    /\ text = <<116>> \o EndOfText \o <<101>>
    /\ encErr = "nil"
    /\ Len(encoded) > 2
    /\ SubSeq(encoded, 2, Len(encoded) - 1) = Encode(tokenizer, EndOfText).tokens

\* The tokens of the WithSpecialTokens options os[k..], in the order of the
\* options and, within one option, of its arguments.
RECURSIVE TokensInOrder(_, _)
TokensInOrder(os, k) ==
    IF k > Len(os) THEN <<>>
    ELSE (IF os[k].kind = "tokens" THEN os[k].tokens ELSE <<>>)
         \o TokensInOrder(os, k + 1)

\* C19: GetTokenizer returns the unknown-encoding error and no tokenizer
\* for a name that is not registered, and calls no factory; for a
\* registered name it calls the factory of that name exactly once, with
\* AllowSpecialAsText true exactly when WithSpecialTokensAsText was among
\* the options and with the tokens of all WithSpecialTokens options in
\* order, and returns what the factory returned.
GetTokenizerCallsFactoryOnce ==
    estatus \in {"ready", "failed"} =>
        IF requestedName \notin {"p50k_edit", "cl100k_base"}
        THEN /\ factoryCalls = <<>>
             /\ tokenizer = [name |-> "none", err |-> "ErrUnknownEncoding"]
             /\ estatus = "failed"
        ELSE /\ Len(factoryCalls) = 1
             /\ factoryCalls[1].name = requestedName
             /\ factoryCalls[1].allowSpecialAsText = BuiltAsText
             /\ factoryCalls[1].allowedSpecial = TokensInOrder(opts, 1)
             /\ tokenizer = NewBPETokenizer(registered[requestedName],
                                            BuiltAsText, TokensInOrder(opts, 1))

\* Two WithSpecialTokens options reached the factory of cl100k_base as one
\* list of three, in the order they were given.
GetTokenizerCallsFactoryOnceWitness ==
    /\ estatus = "ready"
    /\ requestedName = "cl100k_base"
    /\ Len(factoryCalls) = 1
    /\ ~factoryCalls[1].allowSpecialAsText
    /\ factoryCalls[1].allowedSpecial = <<FIMPrefix, EndOfText, EndOfPrompt>>

----------------------------------------------------------------------------
(* The registry of tokenizer.go: RegisterTokenizer, GetTokenizer and       *)
(* ListTokenizers called by concurrent goroutines.  A call is cut into     *)
(* steps at its lock operations and at the start and the end of its access *)
(* to the map, so that two accesses can overlap when the lock lets them.   *)

\* The most registrations of one run.
MaxRegistrations == 3

\* a < b for Go strings: byte by byte, a proper prefix first.
RECURSIVE StringLessFrom(_, _, _)
StringLessFrom(a, b, i) ==
    IF i > Len(b) THEN FALSE
    ELSE IF i > Len(a) THEN TRUE
    ELSE IF a[i] # b[i] THEN a[i] < b[i]
    ELSE StringLessFrom(a, b, i + 1)

StringLess(a, b) == StringLessFrom(a, b, 1)

\* A sort.Strings that leaves the slice as it is.
SortStringsMutant(x) == x

\* sort.Strings(x): x in ascending order.
RECURSIVE SortStrings(_)
InsertString(sorted, e) ==
    SelectSeq(sorted, LAMBDA y : ~StringLess(e, y))
        \o <<e>> \o SelectSeq(sorted, LAMBDA y : StringLess(e, y))

SortStrings(x) ==
    IF x = <<>> THEN <<>>
    ELSE InsertString(SortStrings(SubSeq(x, 1, Len(x) - 1)), x[Len(x)])

\* The keys of the map.
Keys(m) == {n \in DOMAIN m : m[n] # "nil"}

\* The calls in progress that are a RegisterTokenizer.
Registering == {p \in Procs : call[p].op = "register"}

\* A goroutine calls RegisterTokenizer(name, tokFactory).
StartRegister(p, n, f) ==
    /\ pc[p] = "idle"
    /\ Len(regLog) + Cardinality(Registering) < MaxRegistrations
    /\ call' = [call EXCEPT ![p] = [op |-> "register", name |-> n, tokFactory |-> f]]
    /\ pc' = [pc EXCEPT ![p] = "Lock"]
    /\ UNCHANGED <<registry, regMu, tokenFactory, encodings, ranged, regLog>>
    /\ UNCHANGED <<splitVars, trieVars, encVars, apiVars, bpeVars, concVars>>

\* A goroutine calls GetTokenizer(encodingName).
StartGet(p, n) ==
    /\ pc[p] = "idle"
    /\ call' = [call EXCEPT ![p] = [op |-> "get", name |-> n, tokFactory |-> "nil"]]
    /\ pc' = [pc EXCEPT ![p] = "RLock"]
    /\ UNCHANGED <<registry, regMu, tokenFactory, encodings, ranged, regLog>>
    /\ UNCHANGED <<splitVars, trieVars, encVars, apiVars, bpeVars, concVars>>

\* A goroutine calls ListTokenizers().
StartList(p) ==
    /\ pc[p] = "idle"
    /\ call' = [call EXCEPT ![p] = [op |-> "list", name |-> <<>>, tokFactory |-> "nil"]]
    /\ pc' = [pc EXCEPT ![p] = "RLock"]
    /\ UNCHANGED <<registry, regMu, tokenFactory, encodings, ranged, regLog>>
    /\ UNCHANGED <<splitVars, trieVars, encVars, apiVars, bpeVars, concVars>>

\* regMu.Lock(), first half: the writer takes the write lock from other
\* writers and shuts out readers that come after it.
Lock(p) ==
    /\ pc[p] = "Lock"
    /\ regMu.w = 0
    /\ regMu' = [regMu EXCEPT !.w = p]
    /\ pc' = [pc EXCEPT ![p] = "LockWait"]
    /\ UNCHANGED <<registry, call, tokenFactory, encodings, ranged, regLog>>
    /\ UNCHANGED <<splitVars, trieVars, encVars, apiVars, bpeVars, concVars>>

\* regMu.Lock(), second half: the writer goes on when the readers that
\* held the lock before it have left.
LockAcquire(p) ==
    /\ pc[p] = "LockWait"
    /\ regMu.readers = {}
    /\ pc' = [pc EXCEPT ![p] = "store"]
    /\ UNCHANGED <<registry, regMu, call, tokenFactory, encodings, ranged, regLog>>
    /\ UNCHANGED <<splitVars, trieVars, encVars, apiVars, bpeVars, concVars>>

\* registered[name] = tokFactory: the write of the map starts.
StoreBegin(p) ==
    /\ pc[p] = "store"
    /\ pc' = [pc EXCEPT ![p] = "storing"]
    /\ UNCHANGED <<registry, regMu, call, tokenFactory, encodings, ranged, regLog>>
    /\ UNCHANGED <<splitVars, trieVars, encVars, apiVars, bpeVars, concVars>>

\* registered[name] = tokFactory: the write of the map ends.
StoreEnd(p) ==
    /\ pc[p] = "storing"
    /\ registry' = [registry EXCEPT ![call[p].name] = call[p].tokFactory]
    /\ regLog' = Append(regLog, <<call[p].name, call[p].tokFactory>>)
    /\ pc' = [pc EXCEPT ![p] = "Unlock"]
    /\ UNCHANGED <<regMu, call, tokenFactory, encodings, ranged>>
    /\ UNCHANGED <<splitVars, trieVars, encVars, apiVars, bpeVars, concVars>>

\* defer regMu.Unlock(): RegisterTokenizer returns.
Unlock(p) ==
    /\ pc[p] = "Unlock"
    /\ regMu' = [regMu EXCEPT !.w = 0]
    /\ pc' = [pc EXCEPT ![p] = "idle"]
    /\ call' = [call EXCEPT ![p] = NoCall]
    /\ UNCHANGED <<registry, tokenFactory, encodings, ranged, regLog>>
    /\ UNCHANGED <<splitVars, trieVars, encVars, apiVars, bpeVars, concVars>>

\* An RLock that does not wait for a writer.
RLockMutant(p) ==
    /\ pc[p] = "RLock"
    /\ regMu' = [regMu EXCEPT !.readers = @ \cup {p}]
    /\ pc' = [pc EXCEPT ![p] = IF call[p].op = "get" THEN "lookup" ELSE "range"]
    /\ UNCHANGED <<registry, call, tokenFactory, encodings, ranged, regLog>>
    /\ UNCHANGED <<splitVars, trieVars, encVars, apiVars, bpeVars, concVars>>

\* regMu.RLock() of GetTokenizer and of ListTokenizers: the reader waits
\* while a writer holds the lock or waits for it.
RLock(p) ==
    /\ pc[p] = "RLock"
    /\ regMu.w = 0
    /\ regMu' = [regMu EXCEPT !.readers = @ \cup {p}]
    /\ pc' = [pc EXCEPT ![p] = IF call[p].op = "get" THEN "lookup" ELSE "range"]
    /\ UNCHANGED <<registry, call, tokenFactory, encodings, ranged, regLog>>
    /\ UNCHANGED <<splitVars, trieVars, encVars, apiVars, bpeVars, concVars>>

\* tokenFactory, ok := registered[encodingName]: the read of the map starts.
LookupBegin(p) ==
    /\ pc[p] = "lookup"
    /\ pc' = [pc EXCEPT ![p] = "looking"]
    /\ UNCHANGED <<registry, regMu, call, tokenFactory, encodings, ranged, regLog>>
    /\ UNCHANGED <<splitVars, trieVars, encVars, apiVars, bpeVars, concVars>>

\* tokenFactory, ok := registered[encodingName]: the read of the map ends.
LookupEnd(p) ==
    /\ pc[p] = "looking"
    /\ tokenFactory' = [tokenFactory EXCEPT ![p] = registry[call[p].name]]
    /\ pc' = [pc EXCEPT ![p] = "found"]
    /\ UNCHANGED <<registry, regMu, call, encodings, ranged, regLog>>
    /\ UNCHANGED <<splitVars, trieVars, encVars, apiVars, bpeVars, concVars>>

\* GetTokenizer returns what tokenFactory returns, or the unknown-encoding
\* error when ok is false; defer regMu.RUnlock().
GetReturn(p) ==
    /\ pc[p] = "found"
    /\ regMu' = [regMu EXCEPT !.readers = @ \ {p}]
    /\ pc' = [pc EXCEPT ![p] = "idle"]
    /\ call' = [call EXCEPT ![p] = NoCall]
    /\ tokenFactory' = [tokenFactory EXCEPT ![p] = "nil"]
    /\ UNCHANGED <<registry, encodings, ranged, regLog>>
    /\ UNCHANGED <<splitVars, trieVars, encVars, apiVars, bpeVars, concVars>>

\* for encoding := range registered { encodings = append(encodings,
\* encoding) }: one iteration; the order of the keys is not specified.
RangeNext(p, k) ==
    /\ pc[p] = "range"
    /\ k \in Keys(registry) \ ranged[p]
    /\ encodings' = [encodings EXCEPT ![p] = Append(@, k)]
    /\ ranged' = [ranged EXCEPT ![p] = @ \cup {k}]
    /\ UNCHANGED <<registry, regMu, pc, call, tokenFactory, regLog>>
    /\ UNCHANGED <<splitVars, trieVars, encVars, apiVars, bpeVars, concVars>>

\* The range loop ends; sort.Strings(encodings).
RangeEnd(p) ==
    /\ pc[p] = "range"
    /\ Keys(registry) \ ranged[p] = {}
    /\ encodings' = [encodings EXCEPT ![p] = SortStrings(@)]
    /\ pc' = [pc EXCEPT ![p] = "sorted"]
    /\ UNCHANGED <<registry, regMu, call, tokenFactory, ranged, regLog>>
    /\ UNCHANGED <<splitVars, trieVars, encVars, apiVars, bpeVars, concVars>>

\* return encodings; defer regMu.RUnlock().
ListReturn(p) ==
    /\ pc[p] = "sorted"
    /\ regMu' = [regMu EXCEPT !.readers = @ \ {p}]
    /\ pc' = [pc EXCEPT ![p] = "idle"]
    /\ call' = [call EXCEPT ![p] = NoCall]
    /\ encodings' = [encodings EXCEPT ![p] = <<>>]
    /\ ranged' = [ranged EXCEPT ![p] = {}]
    /\ UNCHANGED <<registry, tokenFactory, regLog>>
    /\ UNCHANGED <<splitVars, trieVars, encVars, apiVars, bpeVars, concVars>>

RegNext ==
    \/ \E p \in Procs, n \in RegNames, f \in Factories : StartRegister(p, n, f)
    \/ \E p \in Procs, n \in RegNames : StartGet(p, n)
    \/ \E p \in Procs : StartList(p)
    \/ \E p \in Procs : Lock(p)
    \/ \E p \in Procs : LockAcquire(p)
    \/ \E p \in Procs : StoreBegin(p)
    \/ \E p \in Procs : StoreEnd(p)
    \/ \E p \in Procs : Unlock(p)
    \/ \E p \in Procs : RLock(p)
    \/ \E p \in Procs : LookupBegin(p)
    \/ \E p \in Procs : LookupEnd(p)
    \/ \E p \in Procs : GetReturn(p)
    \/ \E p \in Procs, k \in RegNames : RangeNext(p, k)
    \/ \E p \in Procs : RangeEnd(p)
    \/ \E p \in Procs : ListReturn(p)

SpecReg == Init /\ [][RegNext]_vars

----------------------------------------------------------------------------
(* Properties of the registry.                                             *)

\* The goroutine is between the start and the end of an access to the map.
Writes(p) == pc[p] = "storing"

Reads(p) == pc[p] \in {"looking", "range"}

\* The factory the last registration under name n handed in, "nil" when
\* there is none among the first k.
RECURSIVE LastRegistered(_, _, _)
LastRegistered(log, n, k) ==
    IF k = 0 THEN "nil"
    ELSE IF log[k][1] = n THEN log[k][2]
    ELSE LastRegistered(log, n, k - 1)

\* The names registered so far.
RegisteredNames == {regLog[k][1] : k \in 1..Len(regLog)}

\* The slice is in ascending order and holds no string twice.
Ascending(x) == \A i \in 1..(Len(x) - 1) : StringLess(x[i], x[i + 1])

\* C20: under any interleaving of RegisterTokenizer, GetTokenizer and
\* ListTokenizers calls the map is never written while another call reads
\* or writes it; the factory GetTokenizer(name) uses is the one most
\* recently registered under name, none for a name never registered, which
\* GetTokenizer rejects as unknown; and ListTokenizers returns exactly the
\* registered names, each once, in ascending order, which are exactly the
\* names GetTokenizer does not reject.
RegistryIsConsistent ==
    /\ \A p \in Procs, q \in Procs :
           p # q /\ Writes(p) => ~Writes(q) /\ ~Reads(q)
    /\ \A p \in Procs :
           pc[p] = "found" =>
               tokenFactory[p] = LastRegistered(regLog, call[p].name, Len(regLog))
    /\ \A p \in Procs :
           pc[p] = "sorted" =>
               /\ Ascending(encodings[p])
               /\ Range(encodings[p]) = RegisteredNames
               /\ Len(encodings[p]) = Cardinality(RegisteredNames)
               /\ \A n \in RegNames :
                      n \in Range(encodings[p]) <=>
                          LastRegistered(regLog, n, Len(regLog)) # "nil"

\* After "p50k_edit" and then "cl100k_base" were registered, the latter
\* twice, one goroutine found the second factory of "cl100k_base" while
\* the other had the two names listed in ascending order.
RegistryIsConsistentWitness ==
    /\ regLog = << <<P50KEditName, "getTokenizerEdit">>,
                   <<CL100KBaseName, "getTokenizerEdit">>,
                   <<CL100KBaseName, "getTokenizerBase">> >>
    /\ pc[1] = "found"
    /\ call[1].name = CL100KBaseName
    /\ tokenFactory[1] = "getTokenizerBase"
    /\ pc[2] = "sorted"
    /\ encodings[2] = <<CL100KBaseName, P50KEditName>>
    /\ regMu.readers = {1, 2}

----------------------------------------------------------------------------
(* The merge engine as a state machine: a pre-token is put together,       *)
(* applyBPE takes the fast path for up to two bytes and otherwise merges   *)
(* one pair at a time, with the ranks of the pairs kept between merges.    *)

\* The most bytes of a pre-token.
MaxPreToken == 5

\* The bytes of the pre-tokens: those of " the", " a" and " <".
PreTokenBytes == {32, 116, 104, 101, 97, 60}

\* The cached ranks after the pair k of the list was merged into newParts:
\* the ranks of the two pairs the new element is part of are looked up, the
\* others are carried over.
UpdateRanks(old, newParts, k) ==
    [j \in 1..(Len(newParts) - 1) |->
        IF j < k - 1 THEN old[j]
        ELSE IF j <= k THEN Rank(newParts, j)
        ELSE old[j + 1]]

\* The caller's pre-token grows by one byte.
AddPreTokenByte(b) ==
    /\ bpeStatus = "input"
    /\ Len(preToken) < MaxPreToken
    /\ preToken' = Append(preToken, b)
    /\ UNCHANGED <<elements, rankCache, merged, bpeTokens, bpeStatus>>
    /\ UNCHANGED <<splitVars, trieVars, encVars, apiVars, regVars, concVars>>

\* applyBPE(preToken) for up to two bytes: the byte table and the pair table
\* give the answer.
FastPath ==
    /\ bpeStatus = "input"
    /\ Len(preToken) <= 2
    /\ bpeTokens' = applyBPE(preToken)
    /\ bpeStatus' = "done"
    /\ UNCHANGED <<preToken, elements, rankCache, merged>>
    /\ UNCHANGED <<splitVars, trieVars, encVars, apiVars, regVars, concVars>>

\* applyBPE(preToken) for three bytes or more: the list starts with one
\* element per byte and the rank of each adjacent pair.
StartMerge ==
    /\ bpeStatus = "input"
    /\ Len(preToken) >= 3
    /\ elements' = ByteParts(preToken)
    /\ rankCache' = Ranks(ByteParts(preToken))
    /\ bpeStatus' = "merging"
    /\ UNCHANGED <<preToken, merged, bpeTokens>>
    /\ UNCHANGED <<splitVars, trieVars, encVars, apiVars, regVars, concVars>>

\* One merge: the pair of the lowest cached rank becomes one element.
MergeOne ==
    /\ bpeStatus = "merging"
    /\ BestPair(rankCache) # 0
    /\ elements' = MergePair(elements, BestPair(rankCache))
    /\ rankCache' = UpdateRanks(rankCache, elements', BestPair(rankCache))
    /\ merged' = [k |-> BestPair(rankCache), before |-> elements]
    /\ UNCHANGED <<preToken, bpeTokens, bpeStatus>>
    /\ UNCHANGED <<splitVars, trieVars, encVars, apiVars, regVars, concVars>>

\* No pair has a rank: applyBPE returns the tokens of the elements.
StopMerge ==
    /\ bpeStatus = "merging"
    /\ BestPair(rankCache) = 0
    /\ bpeTokens' = TokensOf(elements)
    /\ bpeStatus' = "done"
    /\ UNCHANGED <<preToken, elements, rankCache, merged>>
    /\ UNCHANGED <<splitVars, trieVars, encVars, apiVars, regVars, concVars>>

BPENext ==
    \/ \E b \in PreTokenBytes : AddPreTokenByte(b)
    \/ FastPath
    \/ StartMerge
    \/ MergeOne
    \/ StopMerge

SpecBPE == Init /\ [][BPENext]_vars

\* The merge engine with its scheduling: a call of applyBPE runs on until
\* it returns.
FairSpecBPE ==
    /\ Init
    /\ [][BPENext]_vars
    /\ WF_vars(MergeOne)
    /\ WF_vars(StopMerge)

----------------------------------------------------------------------------
(* Properties of the merge engine.                                         *)

\* The token id of the vocabulary entry with these bytes, -1 when the
\* vocabulary holds none.
VocabularyId(span) ==
    IF \E i \in 1..Len(tokenList) : tokenList[i] = span
    THEN (CHOOSE i \in 1..Len(tokenList) :
              /\ tokenList[i] = span
              /\ \A j \in 1..(i - 1) : tokenList[j] # span) - 1
    ELSE -1

\* The id of the adjacent pair j of the list.
PairId(list, j) == VocabularyId(list[j] \o list[j + 1])

\* The pair k of the list has the lowest id among the adjacent pairs that
\* are vocabulary entries, and is the leftmost of those with that id.
LowestLeftmost(list, k) ==
    /\ k \in 1..(Len(list) - 1)
    /\ PairId(list, k) >= 0
    /\ \A j \in 1..(Len(list) - 1) :
           PairId(list, j) >= 0 =>
               \/ PairId(list, k) < PairId(list, j)
               \/ (PairId(list, k) = PairId(list, j) /\ k <= j)

\* C22: for a pre-token of three bytes or more the merge engine starts from
\* one element per byte; every merge joins the adjacent pair whose bytes
\* are the vocabulary entry of the lowest token id, the leftmost on a tie;
\* it stops only when no adjacent pair is a vocabulary entry; and the
\* cached rank of every pair is the rank a fresh lookup gives, so the cache
\* never changes the choice.
MergesLowestRankFirst ==
    Len(preToken) >= 3 /\ bpeStatus \in {"merging", "done"} =>
        /\ merged.k = 0 =>
               /\ Len(elements) = Len(preToken)
               /\ \A i \in 1..Len(elements) : elements[i] = <<preToken[i]>>
        /\ merged.k # 0 =>
               /\ LowestLeftmost(merged.before, merged.k)
               /\ Len(elements) = Len(merged.before) - 1
               /\ elements[merged.k] =
                      merged.before[merged.k] \o merged.before[merged.k + 1]
        /\ \A j \in 1..(Len(elements) - 1) : rankCache[j] = PairId(elements, j)
        /\ bpeStatus = "done" =>
               \A j \in 1..(Len(elements) - 1) : PairId(elements, j) = -1

\* " the" after its last merge: " t" and "he", the only pair left, became
\* " the", and the engine stopped.
MergesLowestRankFirstWitness ==
    /\ bpeStatus = "done"
    /\ preToken = <<32, 116, 104, 101>>
    /\ merged = [k |-> 1, before |-> << <<32, 116>>, <<104, 101>> >>]
    /\ elements = << <<32, 116, 104, 101>> >>
    /\ bpeTokens = <<262>>

\* The vocabulary bytes of the ids l[k..]; <<-1>> stands for an id that has
\* no vocabulary entry.
RECURSIVE VocabularyBytes(_, _)
VocabularyBytes(l, k) ==
    IF k > Len(l) THEN <<>>
    ELSE (IF l[k] \in 0..(Len(tokenList) - 1) THEN tokenList[l[k] + 1] ELSE <<-1>>)
         \o VocabularyBytes(l, k + 1)

\* The bytes of the merge list are those of the pre-token.
ElementsSpellPreToken == bpeStatus = "merging" => Concat(elements) = preToken

\* The ids returned are vocabulary ids and their bytes are the pre-token.
TokensSpellPreToken ==
    bpeStatus = "done" =>
        /\ \A i \in 1..Len(bpeTokens) : bpeTokens[i] \in 0..(Len(tokenList) - 1)
        /\ VocabularyBytes(bpeTokens, 1) = preToken

\* C23: at every step of the merge of a pre-token, and in the ids returned,
\* the vocabulary bytes of the elements in order are the bytes of the
\* pre-token; the merge never fails, every id returned being a vocabulary
\* id, and a merge that has started always comes to its end.
MergeKeepsBytesAndEnds ==
    /\ []ElementsSpellPreToken
    /\ []TokensSpellPreToken
    /\ (bpeStatus = "merging") ~> (bpeStatus = "done")

\* In the middle of the merge of " the ": " t", "he" and " ", with one
\* merge still to come.
MergeKeepsBytesAndEndsWitness ==
    /\ bpeStatus = "merging"
    /\ preToken = <<32, 116, 104, 101, 32>>
    /\ elements = << <<32, 116>>, <<104, 101>>, <<32>> >>
    /\ BestPair(rankCache) = 1

\* The ids the special case names for a pre-token of at most two bytes.
SpecialCaseIds(B) ==
    IF Len(B) = 0 THEN <<>>
    ELSE IF Len(B) = 1 THEN <<byteToToken[B[1] + 1]>>
    ELSE IF PairRank(pairsToToken, B[1], B[2]) >= 0
         THEN <<PairRank(pairsToToken, B[1], B[2])>>
    ELSE <<byteToToken[B[1] + 1], byteToToken[B[2] + 1]>>

\* C24: for a pre-token of 0, 1 or 2 bytes applyBPE returns no id, the id of
\* the byte, and the id of the pair when the pair table has one, else the
\* ids of the two bytes; and these are the ids the merge of the lowest
\* ranks over the trie returns for the same pre-token.
FastPathIsTheMerge ==
    (bpeStatus = "done" /\ Len(preToken) <= 2) =>
        /\ bpeTokens = SpecialCaseIds(preToken)
        /\ bpeTokens = TokensOf(MergeLoop(ByteParts(preToken)))

\* "he" returned as its one id from the pair table.
FastPathIsTheMergeWitness ==
    /\ bpeStatus = "done"
    /\ preToken = <<104, 101>>
    /\ bpeTokens = <<258>>

----------------------------------------------------------------------------
(* Calls on one tokenizer from several goroutines, as runBenchmark makes    *)
(* them: one GetTokenizer, then every goroutine calls the instance.  A call *)
(* takes its steps between the steps of the other calls; it reads the       *)
(* instance and the tables and writes the working buffers of its own.       *)

\* One set of working buffers that every call uses.
BufferOfMutant(p) == 1

\* The working buffers of the call of goroutine p: local to the call.
BufferOf(p) == p

\* The options the instance is built with.
ConcOptions ==
    {<<>>, <<[kind |-> "asText"]>>, <<[kind |-> "tokens", tokens |-> <<EndOfText>>]>>}

\* The strings of the calls: "the", and "t<|endoftext|> a".
ConcTexts == {<<116, 104, 101>>, <<116>> \o EndOfText \o <<32, 97>>}

\* The id lists of the calls: " the" "h"; the special token and "he"; an id
\* above every token.
ConcIdLists == {<<262, 71>>, <<50256, 258>>, <<Len(tokenList)>>}

ConcInputs(op) == IF op = "Decode" THEN ConcIdLists ELSE ConcTexts

ConcOps == {"Encode", "Decode", "Count", "Allowed"}

ConcRest == <<splitVars, trieVars, encVars, apiVars, regVars, bpeVars>>

\* tok, err := gotoken.GetTokenizer(name, os...); the goroutines start only
\* when err is nil.
Construct(name, os) ==
    /\ instance.name = "none"
    /\ GetTokenizer(name, os).err = "nil"
    /\ instance' = GetTokenizer(name, os)
    /\ UNCHANGED <<running, work, returned, ConcRest>>

\* Goroutine p calls op on the instance: the call gets its buffers.
Begin(p, op, in) ==
    /\ instance.name # "none"
    /\ running[p].at = "idle"
    /\ running' = [running EXCEPT ![p] =
                      [op |-> op, input |-> in,
                       at |-> IF op = "Decode" THEN "decode"
                              ELSE IF op = "Allowed" THEN "allowed" ELSE "scan"]]
    /\ work' = [work EXCEPT ![BufferOf(p)] = NoWork]
    /\ returned' = [returned EXCEPT ![p] = NoResult]
    /\ UNCHANGED <<instance, ConcRest>>

\* What p's call returns.
Return(p, ts, s, n, err) ==
    /\ returned' = [returned EXCEPT ![p] =
                       [op |-> running[p].op, input |-> running[p].input,
                        tokens |-> ts, text |-> s, n |-> n, err |-> err]]
    /\ running' = [running EXCEPT ![p] = Idle]

\* Encode and Count: the scan for special tokens.  A literal that is not
\* allowed ends the call.
ScanStep(p) ==
    /\ running[p].at = "scan"
    /\ LET items == ScanLoop(instance, running[p].input, 0, 0, <<>>)
       IN  IF items # <<>> /\ "err" \in DOMAIN items[1]
           THEN /\ Return(p, <<>>, <<>>, 0,
                          IF running[p].op = "Count" THEN "nil" ELSE "ErrSpecialToken")
                /\ UNCHANGED work
           ELSE /\ work' = [work EXCEPT ![BufferOf(p)] =
                               [items |-> items, next |-> 1, out |-> <<>>]]
                /\ running' = [running EXCEPT ![p].at = "items"]
                /\ UNCHANGED returned
    /\ UNCHANGED <<instance, ConcRest>>

\* Encode and Count: the tokens of the next item go to the output.
ItemStep(p) ==
    /\ running[p].at = "items"
    /\ work[BufferOf(p)].next <= Len(work[BufferOf(p)].items)
    /\ LET w == work[BufferOf(p)]
       IN  work' = [work EXCEPT ![BufferOf(p)] =
                       [items |-> w.items, next |-> w.next + 1,
                        out |-> w.out \o EncodeItems(instance, <<w.items[w.next]>>, 1)]]
    /\ UNCHANGED <<instance, running, returned, ConcRest>>

\* Encode and Count return.
ReturnEncode(p) ==
    /\ running[p].at = "items"
    /\ work[BufferOf(p)].next > Len(work[BufferOf(p)].items)
    /\ IF running[p].op = "Count"
       THEN Return(p, <<>>, <<>>, Len(work[BufferOf(p)].out), "nil")
       ELSE Return(p, work[BufferOf(p)].out, <<>>, 0, "nil")
    /\ UNCHANGED <<instance, work, ConcRest>>

\* Decode: the bytes of the next id go to the output; an id that is no
\* token ends the call.
DecodeStep(p) ==
    /\ running[p].at = "decode"
    /\ work[BufferOf(p)].next <= Len(running[p].input)
    /\ LET w == work[BufferOf(p)]
           bytes == DecodeToken(instance, running[p].input[w.next])
       IN  IF bytes = <<-1>>
           THEN /\ Return(p, <<>>, <<>>, 0, "ErrInvalidToken")
                /\ UNCHANGED work
           ELSE /\ work' = [work EXCEPT ![BufferOf(p)] =
                               [items |-> w.items, next |-> w.next + 1,
                                out |-> w.out \o bytes]]
                /\ UNCHANGED <<running, returned>>
    /\ UNCHANGED <<instance, ConcRest>>

\* Decode returns.
ReturnDecode(p) ==
    /\ running[p].at = "decode"
    /\ work[BufferOf(p)].next > Len(running[p].input)
    /\ Return(p, <<>>, work[BufferOf(p)].out, 0, "nil")
    /\ UNCHANGED <<instance, work, ConcRest>>

\* Allowed: it has no buffer.
AllowedStep(p) ==
    /\ running[p].at = "allowed"
    /\ Return(p, <<>>, <<>>, 0, Allowed(instance, running[p].input))
    /\ UNCHANGED <<instance, work, ConcRest>>

ConcNext ==
    \/ \E name \in DOMAIN registered, os \in ConcOptions : Construct(name, os)
    \/ \E p \in Callers, op \in ConcOps : \E in \in ConcInputs(op) : Begin(p, op, in)
    \/ \E p \in Callers : ScanStep(p)
    \/ \E p \in Callers : ItemStep(p)
    \/ \E p \in Callers : ReturnEncode(p)
    \/ \E p \in Callers : DecodeStep(p)
    \/ \E p \in Callers : ReturnDecode(p)
    \/ \E p \in Callers : AllowedStep(p)

SpecConc == Init /\ [][ConcNext]_vars

\* What the call that r records returns when it runs alone on tok.
Alone(tok, r) ==
    IF r.op = "Encode"
    THEN [op |-> r.op, input |-> r.input, tokens |-> Encode(tok, r.input).tokens,
          text |-> <<>>, n |-> 0, err |-> Encode(tok, r.input).err]
    ELSE IF r.op = "Decode"
    THEN [op |-> r.op, input |-> r.input, tokens |-> <<>>,
          text |-> Decode(tok, r.input).text, n |-> 0, err |-> Decode(tok, r.input).err]
    ELSE IF r.op = "Count"
    THEN [op |-> r.op, input |-> r.input, tokens |-> <<>>, text |-> <<>>,
          n |-> Count(tok, r.input), err |-> "nil"]
    ELSE [op |-> r.op, input |-> r.input, tokens |-> <<>>, text |-> <<>>,
          n |-> 0, err |-> Allowed(tok, r.input)]

\* Every call that has returned has returned what it returns alone.
ReturnedAsAlone ==
    \A p \in Callers : returned[p].op # "none" => returned[p] = Alone(instance, returned[p])

----------------------------------------------------------------------------
(* The order of the output of one Encode call.                             *)

\* The offsets at which the substrings ms[j..] end, the first starting at
\* offset at.
RECURSIVE SubstringEnds(_, _, _)
SubstringEnds(ms, j, at) ==
    IF j > Len(ms) THEN {}
    ELSE {at + Len(ms[j])} \union SubstringEnds(ms, j + 1, at + Len(ms[j]))

\* The offsets of s from offset from on at which a piece of the pipeline
\* ends: a literal of lits, or a substring the splitter makes of the text
\* between two of them.
RECURSIVE PieceEnds(_, _, _, _)
PieceEndsAt(tok, lits, s, from, i) ==
    SubstringEnds(RunSplitter(tok.params.Splitter, Slice(s, from, i)), 1, from)
        \union (IF i >= Len(s) THEN {}
                ELSE {i + Len(LiteralAt(lits, s, i))}
                         \union PieceEnds(tok, lits, s, i + Len(LiteralAt(lits, s, i))))

PieceEnds(tok, lits, s, from) ==
    PieceEndsAt(tok, lits, s, from, FirstListed(lits, s, from))

\* The offsets at which a token of the ids l ends.
TokenEnds(params, l) ==
    {Len(BytesOfIds(params, SubSeq(l, 1, k), 1)) : k \in 1..Len(l)}

\* C25: the ids of one Encode call are in the order of the input: they are
\* the special id of each allowed literal and, for the text between them,
\* the ids of each substring of the splitter, put together in input order,
\* so that their bytes in order are the input; and no token covers bytes of
\* two substrings: where a substring or a literal ends, a token ends.
EncodeInInputOrder ==
    estatus = "encoded" /\ encErr = "nil" =>
        /\ encoded = ChunkedTokens(tokenizer, AllowListOf(opts), text, 0)
        /\ BytesOfIds(tokenizer.params, encoded, 1) = text
        /\ PieceEnds(tokenizer, AllowListOf(opts), text, 0)
               \subseteq TokenEnds(tokenizer.params, encoded)

\* "t " and the allowed <|endoftext|>: the substrings "t" and " " and the
\* literal gave one id each, in that order.
EncodeInInputOrderWitness ==
    /\ estatus = "encoded"
    /\ encErr = "nil"
    /\ opts = <<[kind |-> "tokens", tokens |-> <<EndOfText>>]>>
    /\ text = <<116, 32>> \o EndOfText
    /\ encoded = <<83, 220, IdOf(tokenizer.params, EndOfText)>>

----------------------------------------------------------------------------
(* Properties of the substrings of the two splitters.                      *)

\* What follows the apostrophe in a contraction: s, t, m, d, re, ve, ll.
ContractionTails ==
    {<<115>>, <<116>>, <<109>>, <<100>>, <<114, 101>>, <<118, 101>>, <<108, 108>>}

\* The lower-case letter of an upper-case ASCII letter.
ToLower(b) == IF 65 <= b /\ b <= 90 THEN b + 32 ELSE b

\* rest starts with an apostrophe and the tail t, as written when fold is
\* FALSE and in any mix of upper and lower case when it is TRUE.
StartsWithTail(rest, t, fold) ==
    /\ Len(rest) >= 1 + Len(t)
    /\ rest[1] = 39
    /\ \A j \in 1..Len(t) : (IF fold THEN ToLower(rest[1 + j]) ELSE rest[1 + j]) = t[j]

\* The input from the start of the i-th substring on: what remained when
\* the substring was matched.
Remaining(i) == SliceFrom(input, matches[i][1])

\* C26: where the remaining input starts with an apostrophe and s, t, m, d,
\* re, ve or ll, the next substring is exactly that contraction, of two or
\* three bytes: for GPT2Splitter when the letters are in lower case, for
\* cl100KBaseSplitter in every mix of upper and lower case.  GPT2Splitter
\* makes no contraction of letters that are not all lower case: the
\* apostrophe is a substring by itself and the letters start the next one.
ContractionsMatched ==
    status \in {"running", "done"} =>
        \A i \in 1..Len(matches) : \A t \in ContractionTails :
            /\ StartsWithTail(Remaining(i), t, splitter = "cl100k")
                   => MatchBytes(i) = SubSeq(Remaining(i), 1, 1 + Len(t))
            /\ (/\ splitter = "gpt2"
                /\ StartsWithTail(Remaining(i), t, TRUE)
                /\ ~StartsWithTail(Remaining(i), t, FALSE))
                   => /\ MatchBytes(i) = <<39>>
                      /\ i < Len(matches) =>
                             /\ Len(MatchBytes(i + 1)) >= Len(t)
                             /\ SubSeq(MatchBytes(i + 1), 1, Len(t))
                                    = SubSeq(Remaining(i), 2, 1 + Len(t))

\* GPT2Splitter on 's'S: the contraction 's, then the apostrophe and S.
ContractionsMatchedWitness ==
    /\ status = "done"
    /\ splitter = "gpt2"
    /\ input = <<39, 115, 39, 83>>
    /\ MatchList = << <<39, 115>>, <<39>>, <<83>> >>

\* The sizes in bytes of the number code points that rest holds from offset
\* at on, up to the first code point that is not a number.
RECURSIVE LeadingNumbers(_, _)
LeadingNumbers(rest, at) ==
    IF at >= Len(rest) THEN <<>>
    ELSE IF IsNumber(DecodeRune(SliceFrom(rest, at))[1])
    THEN <<DecodeRune(SliceFrom(rest, at))[2]>>
             \o LeadingNumbers(rest, at + DecodeRune(SliceFrom(rest, at))[2])
    ELSE <<>>

\* The bytes of the first n code points of the sizes.
RECURSIVE BytesOfFirst(_, _)
BytesOfFirst(sizes, n) ==
    IF n = 0 \/ sizes = <<>> THEN 0 ELSE Head(sizes) + BytesOfFirst(Tail(sizes), n - 1)

\* The numbers of the j-th substring of a run of k: three, or what is left.
GroupOf(k, j) == IF k - 3 * j >= 3 THEN 3 ELSE k - 3 * j

\* The i-th substring starts a run of numbers: none is before it.
StartsRun(i) ==
    /\ LeadingNumbers(Remaining(i), 0) # <<>>
    /\ i = 1 \/ LeadingNumbers(MatchBytes(i - 1), 0) = <<>>

\* C27: a substring of cl100KBaseSplitter that starts with a number holds
\* numbers only, three of them or all that are left of the run; a run of k
\* numbers gives k \div 3 substrings of three and then one of k % 3 when that
\* is not zero; and a space before a number is a substring by itself.
NumbersInThrees ==
    (splitter = "cl100k" /\ status \in {"running", "done"}) =>
        \A i \in 1..Len(matches) :
            LET sizes == LeadingNumbers(Remaining(i), 0)
                k == Len(sizes)
            IN  /\ k > 0 =>
                       /\ Len(LeadingNumbers(MatchBytes(i), 0)) = GroupOf(k, 0)
                       /\ Len(MatchBytes(i)) = BytesOfFirst(sizes, GroupOf(k, 0))
                /\ (StartsRun(i) /\ status = "done") =>
                       \A j \in 0..((k - 1) \div 3) :
                           /\ i + j <= Len(matches)
                           /\ Len(LeadingNumbers(MatchBytes(i + j), 0)) = GroupOf(k, j)
                           /\ Len(MatchBytes(i + j))
                                  = BytesOfFirst(LeadingNumbers(Remaining(i + j), 0),
                                                 GroupOf(k, j))
                /\ (Remaining(i)[1] = 32 /\ LeadingNumbers(Remaining(i), 1) # <<>>)
                       => MatchBytes(i) = <<32>>

\* The run of four numbers "1111": "111" and "1".
NumbersInThreesWitness ==
    /\ splitter = "cl100k"
    /\ status = "done"
    /\ input = <<49, 49, 49, 49>>
    /\ MatchList = << <<49, 49, 49>>, <<49>> >>

\* The sizes in bytes of the whitespace code points that rest holds from
\* offset at on, up to the first code point that is not whitespace.
RECURSIVE LeadingSpaces(_, _)
LeadingSpaces(rest, at) ==
    IF at >= Len(rest) THEN <<>>
    ELSE IF IsSpace(DecodeRune(SliceFrom(rest, at))[1])
    THEN <<DecodeRune(SliceFrom(rest, at))[2]>>
             \o LeadingSpaces(rest, at + DecodeRune(SliceFrom(rest, at))[2])
    ELSE <<>>

\* The i-th substring was matched as the give-back rule says, sizes being
\* the whitespace code points the remaining input started with: a run of
\* two or more with a code point after it is emitted without its last byte,
\* any other run whole, and alone when the input ends with it.
GaveBackByRule(i, sizes) ==
    LET n == BytesOfFirst(sizes, Len(sizes))
    IN  IF Len(sizes) >= 2 /\ n < Len(Remaining(i))
        THEN Len(MatchBytes(i)) = n - 1
        ELSE IF n = Len(Remaining(i)) THEN Len(MatchBytes(i)) = n
        ELSE Len(MatchBytes(i)) >= n

\* C28: in both splitters, a whitespace run of two or more code points that
\* a code point which is not whitespace follows is emitted without its last
\* byte, and that byte starts the next substring; a run that reaches the
\* end of the input, or a run of one code point, is emitted whole and
\* nothing is given back.
WhitespaceGiveBack ==
    status \in {"running", "done"} =>
        \A i \in 1..Len(matches) :
            LeadingSpaces(Remaining(i), 0) # <<>>
                => GaveBackByRule(i, LeadingSpaces(Remaining(i), 0))

\* The byte at offset at of rest begins no valid UTF-8 sequence.
InvalidAt(rest, at) ==
    /\ DecodeRune(SliceFrom(rest, at))[1] = RuneError
    /\ DecodeRune(SliceFrom(rest, at))[2] = 1

\* rest from offset at on as the scan reads it, with '!', a code point of
\* one byte that is no letter, number or whitespace, in the place of every
\* byte that begins no valid UTF-8 sequence.
RECURSIVE AsOther(_, _)
AsOther(rest, at) ==
    IF at >= Len(rest) THEN <<>>
    ELSE IF InvalidAt(rest, at) THEN <<33>> \o AsOther(rest, at + 1)
    ELSE Slice(rest, at, at + DecodeRune(SliceFrom(rest, at))[2])
             \o AsOther(rest, at + DecodeRune(SliceFrom(rest, at))[2])

\* Some byte of the scan of rest begins no valid UTF-8 sequence.
HasInvalid(rest) == AsOther(rest, 0) # rest

\* C29: a byte at the scan position that begins no valid UTF-8 sequence is
\* taken by both splitters as one code point of one byte that is no letter,
\* number or whitespace: every substring is the one matched with such a
\* code point in the place of each of these bytes; and every byte of the
\* input, these bytes too, is unchanged in exactly one substring.
InvalidBytesPassThrough ==
    /\ status \in {"running", "done"} =>
           \A i \in 1..Len(matches) :
               /\ matches[i][1] = (IF i = 1 THEN 0 ELSE matches[i - 1][2])
               /\ Len(MatchBytes(i))
                      = getMatchLength(splitter, AsOther(Remaining(i), 0))
    /\ status = "done" => Concat(MatchList) = input

\* GPT2Splitter on 'l', the byte C2 and an apostrophe: the letter, then the
\* byte and the apostrophe as one substring.
InvalidBytesPassThroughWitness ==
    /\ status = "done"
    /\ splitter = "gpt2"
    /\ input = <<108, 194, 39>>
    /\ HasInvalid(input)
    /\ MatchList = << <<108>>, <<194, 39>> >>

\* The offsets of s at which a code point of s starts, from offset at on.
RECURSIVE CodePointStarts(_, _)
CodePointStarts(s, at) ==
    IF at >= Len(s) THEN {Len(s)}
    ELSE {at} \union CodePointStarts(s, at + DecodeRune(SliceFrom(s, at))[2])

\* C30: on valid UTF-8 input every substring of GPT2Splitter and of
\* cl100KBaseSplitter starts and ends where a code point starts or the
\* input ends: no code point of two or more bytes is cut in two, a
\* whitespace code point of two or three bytes at the end of a whitespace
\* run before a code point that is not whitespace included.
BoundariesOnCodePoints ==
    (status \in {"running", "done"} /\ ValidUTF8(input)) =>
        \A i \in 1..Len(matches) :
            /\ matches[i][1] \in CodePointStarts(input, 0)
            /\ matches[i][2] \in CodePointStarts(input, 0)

====
